---- MODULE Spec2Model ----
(***************************************************************************)
(* Model of the drawio-mcp diagram mutation engine: Graph.addNode,         *)
(* Graph.editNode, Graph.linkNodes (src/src/Graph.ts) on top of the        *)
(* mxGraphModel cell store, and the edit_nodes / link_nodes tool handlers  *)
(* (src/src/mcp/EditNodeTool.ts, LinkNodesTool) that load a document,      *)
(* apply a batch and save it.                                              *)
(***************************************************************************)
EXTENDS Integers, Sequences, FiniteSets, TLC

(***************************************************************************)
(* JavaScript values.  Every value is a tagged tuple so that values of     *)
(* different JavaScript types can be compared.                             *)
(***************************************************************************)
Undefined == <<"undefined">>
Null == <<"null">>
Str(s) == <<"string", s>>
Num(n) == <<"number", n>>
Bool(b) == <<"boolean", b>>
Obj(entries) == <<"object", entries>>

TypeOf(v) == v[1]

\* JavaScript truthiness (ToBoolean).
Truthy(v) ==
  CASE TypeOf(v) = "undefined" -> FALSE
    [] TypeOf(v) = "null" -> FALSE
    [] TypeOf(v) = "string" -> IF Len(v) = 3 THEN v[2] # << <<"">> >> ELSE v[2] # ""
    [] TypeOf(v) = "number" -> v[2] # 0
    [] TypeOf(v) = "boolean" -> v[2]
    [] OTHER -> TRUE

Digits == <<"0", "1", "2", "3", "4", "5", "6", "7", "8", "9">>

RECURSIVE NumToString(_)
\* String(n) for a non-negative integer n.
NumToString(n) ==
  IF n < 10 THEN Digits[n + 1]
  ELSE NumToString(n \div 10) \o Digits[(n % 10) + 1]

\* String(v) / `${v}` for the primitive values that reach a style.
ToStringAtom(v) ==
  CASE TypeOf(v) = "string" -> v[2]
    [] TypeOf(v) = "number" -> NumToString(v[2])
    [] TypeOf(v) = "boolean" -> IF v[2] THEN "true" ELSE "false"
    [] TypeOf(v) = "null" -> "null"
    [] OTHER -> "undefined"

(***************************************************************************)
(* Style strings.  A style string is kept as the list of its ';'-separated *)
(* segments, each segment as the list of its '='-separated parts, so       *)
(* "a=1;b;" is << <<"a","1">>, <<"b">>, <<"">> >> and "" is << <<"">> >>.  *)
(* The third component tells a style string from a plain string Str(s).    *)
(***************************************************************************)
StyleString(segs) == <<"string", segs, "segments">>
EmptySeg == <<"">>
EmptyString == StyleString(<<EmptySeg>>)
ObjectObjectString == StyleString(<< <<"[object Object]">> >>)

\* String(style) for a truthy style: a string is itself, a plain object
\* prints as "[object Object]".
StringOfStyle(style) ==
  IF TypeOf(style) = "string" THEN style ELSE ObjectObjectString

RECURSIVE IndexOfKey(_, _, _)
\* Position of key k in the entry list, 0 when absent.
IndexOfKey(entries, k, i) ==
  IF i > Len(entries) THEN 0
  ELSE IF entries[i][1] = k THEN i
  ELSE IndexOfKey(entries, k, i + 1)

HasKey(entries, k) == IndexOfKey(entries, k, 1) # 0

\* obj[k]
GetKey(entries, k) ==
  IF HasKey(entries, k) THEN entries[IndexOfKey(entries, k, 1)][2]
  ELSE Undefined

\* obj[k] = v : an existing key keeps its position, a new key is appended.
SetKey(entries, k, v) ==
  IF HasKey(entries, k)
  THEN [entries EXCEPT ![IndexOfKey(entries, k, 1)] = <<k, v>>]
  ELSE Append(entries, <<k, v>>)

\* delete obj[k]
DeleteKey(entries, k) ==
  SelectSeq(entries, LAMBDA e : e[1] # k)

RECURSIVE SpreadInto(_, _)
\* { ...a, ...b } : the entries of b assigned over those of a.
SpreadInto(a, b) ==
  IF b = <<>> THEN a
  ELSE SpreadInto(SetKey(a, b[1][1], b[1][2]), Tail(b))

RECURSIVE ParseSegments(_, _)
\* The reduce of parseStyle over the non-empty segments.
ParseSegments(segs, acc) ==
  IF segs = <<>> THEN acc
  ELSE LET kv == segs[1]
           k == kv[1]
           v == IF Len(kv) >= 2 THEN Str(kv[2]) ELSE Str("")
       IN ParseSegments(Tail(segs), SetKey(acc, k, v))

\* Graph.parseStyle: string -> entries, object -> shallow copy.
parseStyle(style) ==
  IF TypeOf(style) = "string"
  THEN ParseSegments(SelectSeq(style[2], LAMBDA s : s # EmptySeg), <<>>)
  ELSE IF TypeOf(style) = "object" THEN style[2]
  ELSE <<>>

\* The '='-separated parts of the texts that contain '='.
EqualsSplit ==
  [t \in {"https://x?a=b", "a=b=c"} |->
     IF t = "a=b=c" THEN <<"a", "b", "c">> ELSE <<"https://x?a", "b">>]

\* text.split('=')
PartsOf(text) == IF text \in DOMAIN EqualsSplit THEN EqualsSplit[text] ELSE <<text>>

RECURSIVE StringifyEntries(_)
\* The reduce of stringifyStyle: key + (value ? `=${value}` : '') + ';'.
\* A value that contains '=' makes a segment of more than two parts.
StringifyEntries(entries) ==
  IF entries = <<>> THEN <<EmptySeg>>
  ELSE LET k == entries[1][1]
           v == entries[1][2]
           rest == StringifyEntries(Tail(entries))
       IN IF v = Undefined THEN rest
          ELSE IF Truthy(v) THEN << <<k>> \o PartsOf(ToStringAtom(v)) >> \o rest
          ELSE << <<k>> >> \o rest

\* Graph.stringifyStyle
stringifyStyle(entries) == StyleString(StringifyEntries(entries))

\* Graph.toStyleString
toStyleString(data) ==
  IF TypeOf(data) = "string" THEN data
  ELSE StyleString(StringifyEntries(data[2]))

(***************************************************************************)
(* Kind catalog (Graph.Kinds).                                             *)
(***************************************************************************)
DEFAULT_CORNER_RADIUS == 12
KIND_ROUNDED_RECTANGLE == "RoundedRectangle"
PROP_ARC_SIZE == "arcSize"
PROP_ABSOLUTE_ARC_SIZE == "absoluteArcSize"

STYLE_OVERRIDE_KEYS ==
  <<"fillColor", "strokeColor", "fontColor", "strokeWidth", "fontSize",
    "fontStyle", "fontFamily", "opacity">>

KindNames ==
  {"Rectangle", "Ellipse", "Cylinder", "Cloud", "Square", "Circle", "Step",
   "Actor", "Text", "RoundedRectangle"}

Kinds ==
  [k \in KindNames |->
    CASE k = "Rectangle" ->
           [style |-> Obj(<< <<"rounded", Num(1)>>, <<"whiteSpace", Str("wrap")>>,
                            <<"html", Num(1)>> >>),
            width |-> 120, height |-> 60]
      [] k = "Ellipse" ->
           [style |-> Obj(<< <<"ellipse", Str("")>>, <<"whiteSpace", Str("wrap")>>,
                            <<"html", Num(1)>> >>),
            width |-> 120, height |-> 80]
      [] k = "Cylinder" ->
           [style |-> StyleString(<< <<"shape", "cylinder3">>, <<"whiteSpace", "wrap">>,
                            <<"html", "1">>, <<"boundedLbl", "1">>,
                            <<"backgroundOutline", "1">>, <<"size", "15">>, EmptySeg >>),
            width |-> 60, height |-> 80]
      [] k = "Cloud" ->
           [style |-> StyleString(<< <<"ellipse">>, <<"shape", "cloud">>,
                            <<"whiteSpace", "wrap">>, <<"html", "1">>, EmptySeg >>),
            width |-> 120, height |-> 80]
      [] k = "Square" ->
           [style |-> StyleString(<< <<"whiteSpace", "wrap">>, <<"html", "1">>,
                            <<"aspect", "fixed">>, <<"rounded", "1">>, EmptySeg >>),
            width |-> 80, height |-> 80]
      [] k = "Circle" ->
           [style |-> StyleString(<< <<"ellipse">>, <<"whiteSpace", "wrap">>,
                            <<"html", "1">>, <<"aspect", "fixed">>, EmptySeg >>),
            width |-> 80, height |-> 80]
      [] k = "Step" ->
           [style |-> StyleString(<< <<"shape", "step">>, <<"perimeter", "stepPerimeter">>,
                            <<"whiteSpace", "wrap">>, <<"html", "1">>,
                            <<"fixedSize", "1">>, EmptySeg >>),
            width |-> 120, height |-> 80]
      [] k = "Actor" ->
           [style |-> StyleString(<< <<"shape", "umlActor">>,
                            <<"verticalLabelPosition", "bottom">>,
                            <<"verticalAlign", "top">>, <<"html", "1">>,
                            <<"outlineConnect", "0">>, EmptySeg >>),
            width |-> 30, height |-> 60]
      [] k = "Text" ->
           [style |-> StyleString(<< <<"text">>, <<"html", "1">>, <<"strokeColor", "none">>,
                            <<"fillColor", "none">>, <<"align", "center">>,
                            <<"verticalAlign", "middle">>, <<"whiteSpace", "wrap">>,
                            <<"rounded", "0">>, EmptySeg >>),
            width |-> 60, height |-> 30]
      [] OTHER ->
           [style |-> StyleString(<< <<"whiteSpace", "wrap">>, <<"html", "1">>,
                            <<"rounded", "1">>, <<"absoluteArcSize", "1">>,
                            <<"arcSize", NumToString(DEFAULT_CORNER_RADIUS * 2)>> >>),
            width |-> 120, height |-> 60]]

\* Graph.normalizeKind
normalizeKind(kind) ==
  IF kind = Str("Elipse") THEN Str("Ellipse") ELSE kind

\* Mutant of adjustStyleByKind: the arc size is the radius, not twice it.
adjustStyleByKindRadius(style, kind, corner_radius) ==
  IF kind = Str(KIND_ROUNDED_RECTANGLE)
  THEN LET styleObj == parseStyle(style)
           cr == corner_radius[2]
           arcSize == IF cr >= 1 THEN cr ELSE DEFAULT_CORNER_RADIUS
       IN stringifyStyle(
            SetKey(SetKey(styleObj, PROP_ABSOLUTE_ARC_SIZE, Str("1")),
                   PROP_ARC_SIZE,
                   Str(NumToString(IF corner_radius # Undefined THEN arcSize
                                   ELSE DEFAULT_CORNER_RADIUS))))
  ELSE style

\* Graph.adjustStyleByKind; corner_radius is Undefined or a Num.
adjustStyleByKind(style, kind, corner_radius) ==
  IF kind = Str(KIND_ROUNDED_RECTANGLE)
  THEN LET styleObj == parseStyle(style)
           cr == corner_radius[2]
           arcSize == IF cr >= 1 THEN cr * 2 ELSE DEFAULT_CORNER_RADIUS * 2
       IN IF corner_radius # Undefined
          THEN stringifyStyle(
                 SetKey(SetKey(styleObj, PROP_ABSOLUTE_ARC_SIZE, Str("1")),
                        PROP_ARC_SIZE, Str(NumToString(arcSize))))
          ELSE stringifyStyle(styleObj)
  ELSE style

RECURSIVE ApplyOverrides(_, _)
\* The loop of mergeStyleOverrides: styleObj[key] = String(value).
ApplyOverrides(styleObj, defined) ==
  IF defined = <<>> THEN styleObj
  ELSE ApplyOverrides(SetKey(styleObj, defined[1][1], Str(ToStringAtom(defined[1][2]))),
                      Tail(defined))

\* Graph.mergeStyleOverrides; overrides is an entry list.
mergeStyleOverrides(styleStr, overrides) ==
  LET defined == SelectSeq(overrides, LAMBDA e : e[2] # Undefined)
  IN IF Len(defined) = 0 THEN styleStr
     ELSE stringifyStyle(ApplyOverrides(parseStyle(styleStr), defined))

RECURSIVE PickKeys(_, _, _)
PickKeys(params, keys, result) ==
  IF keys = <<>> THEN result
  ELSE PickKeys(params, Tail(keys),
                IF GetKey(params, keys[1]) # Undefined
                THEN SetKey(result, keys[1], GetKey(params, keys[1]))
                ELSE result)

\* Graph.pickStyleOverrides; params is the entry list of the rest object.
pickStyleOverrides(params) == PickKeys(params, STYLE_OVERRIDE_KEYS, <<>>)

(***************************************************************************)
(* Identifiers are strings.  CodeUnits gives the UTF-16 code units of the  *)
(* identifiers callers use, for Array.prototype.sort and mxUtils.isNumeric.*)
(***************************************************************************)
CodeUnits ==
  [i \in {"0", "1", "svc", "db", "ghost", "svc-2-db", "db-2-svc"} |->
    CASE i = "0" -> <<48>>
      [] i = "db-2-svc" -> <<100, 98, 45, 50, 45, 115, 118, 99>>
      [] i = "1" -> <<49>>
      [] i = "svc" -> <<115, 118, 99>>
      [] i = "db" -> <<100, 98>>
      [] i = "ghost" -> <<103, 104, 111, 115, 116>>
      [] OTHER -> <<115, 118, 99, 45, 50, 45, 100, 98>>]

RECURSIVE UnitsLess(_, _)
\* Lexicographic order on code-unit sequences (a proper prefix is smaller).
UnitsLess(u, v) ==
  IF v = <<>> THEN FALSE
  ELSE IF u = <<>> THEN TRUE
  ELSE IF u[1] # v[1] THEN u[1] < v[1]
  ELSE UnitsLess(Tail(u), Tail(v))

\* The string comparison used by [from, to].sort().
StringLess(a, b) == UnitsLess(CodeUnits[a], CodeUnits[b])

\* [from, to].sort() : the pair in ascending order, stable when equal.
sortPair(from, to) ==
  IF StringLess(to, from) THEN <<to, from>> ELSE <<from, to>>

\* Largest number tried when reading an identifier as a number.
MaxNumericId == 12

\* mxUtils.isNumeric on an identifier: is it the decimal form of a number.
isNumeric(id) == \E n \in 0..MaxNumericId : NumToString(n) = id

\* The number a numeric identifier stands for.
numericValue(id) == CHOOSE n \in 0..MaxNumericId : NumToString(n) = id

(***************************************************************************)
(* The cell store (mxGraphModel).  A graph is [cells, nextId]; cells is    *)
(* the list of mxCell objects in insertion order.                          *)
(***************************************************************************)
ROOT_ID == "0"
LAYER_ID == "1"

Geometry(x, y, width, height, relative, points) ==
  <<"object", [x |-> x, y |-> y, width |-> width, height |-> height,
               relative |-> relative, points |-> points]>>

mxCell(id, vertex, edge, parent, value, geometry, source, target) ==
  [id |-> id, vertex |-> vertex, edge |-> edge, parent |-> parent,
   value |-> value, style |-> Undefined, geometry |-> geometry,
   source |-> source, target |-> target]

\* new Graph(): mxGraphModel.createRoot gives the root cell "0" and the
\* default layer "1"; the next generated identifier is 2.
NewGraph ==
  [cells |-> << mxCell(ROOT_ID, FALSE, FALSE, Null, Undefined, Undefined, Null, Null),
                mxCell(LAYER_ID, FALSE, FALSE, Str(ROOT_ID), Undefined, Undefined, Null, Null) >>,
   nextId |-> 2]

RECURSIVE CellIndex(_, _, _)
CellIndex(cells, id, i) ==
  IF i > Len(cells) THEN 0
  ELSE IF cells[i].id = id THEN i
  ELSE CellIndex(cells, id, i + 1)

\* model.getCell(id) as a truth value: is there a cell under this id.
hasCell(g, id) == CellIndex(g.cells, id, 1) # 0

\* model.getCell(id) for an id that names a cell.
getCell(g, id) == g.cells[CellIndex(g.cells, id, 1)]

\* Replaces the cell stored under c.id (a mutation through a cell reference).
putCell(g, c) ==
  [g EXCEPT !.cells[CellIndex(g.cells, c.id, 1)] = c]

RECURSIVE createId(_, _)
\* mxGraphModel.createId repeated while the identifier collides:
\* the first free number at or after n.
createId(g, n) ==
  IF hasCell(g, NumToString(n)) THEN createId(g, n + 1) ELSE n

\* Mutant of cellAdded: a colliding identifier is kept.
cellAddedNoRename(g, cell) ==
  [cells |-> Append(g.cells, cell), nextId |-> g.nextId]

\* mxGraphModel.cellAdded: a cell whose id collides with another cell gets
\* a generated id; numeric ids push nextId forward.
cellAdded(g, cell) ==
  IF hasCell(g, cell.id)
  THEN LET n == createId(g, g.nextId)
       IN [cells |-> Append(g.cells, [cell EXCEPT !.id = NumToString(n)]),
           nextId |-> n + 1]
  ELSE [cells |-> Append(g.cells, cell),
        nextId |-> IF isNumeric(cell.id) /\ numericValue(cell.id) > g.nextId
                   THEN numericValue(cell.id)
                   ELSE g.nextId]

\* The cell most recently inserted.
lastCell(g) == g.cells[Len(g.cells)]

\* graph.insertVertex(parent, id, value, x, y, width, height); a missing
\* width or height becomes 0 in the mxGeometry constructor.
insertVertex(g, parent, id, value, x, y, width, height) ==
  cellAdded(g, mxCell(id, TRUE, FALSE, Str(parent), value,
                      Geometry(x, y,
                               IF TypeOf(width) = "number" THEN width[2] ELSE 0,
                               IF TypeOf(height) = "number" THEN height[2] ELSE 0,
                               FALSE, Null),
                      Null, Null))

\* graph.insertEdge(parent, id, value, source, target); source and target
\* are Null when the terminal cell does not exist.
insertEdge(g, parent, id, value, source, target) ==
  cellAdded(g, mxCell(id, FALSE, TRUE, Str(parent), value,
                      Geometry(0, 0, 0, 0, TRUE, Null), source, target))

(***************************************************************************)
(* Graph operations.  Each returns [g, ret, err]: the graph after the      *)
(* call, the returned identifier (or Undefined), and the error thrown      *)
(* ("none" when the call returns normally).                                *)
(***************************************************************************)
NO_ERROR == "none"
NOT_FOUND == "Node not found"
TYPE_ERROR == "TypeError"

Result(g, ret, err) == [g |-> g, ret |-> ret, err |-> err]

\* Graph.addNode; p = [id, title, parent, kind, x, y, corner_radius, rest],
\* kind/x/y already defaulted by the parameter list when Undefined.
addNode(g, p) ==
  LET kind == IF p.kind = Undefined THEN Str("Rectangle") ELSE p.kind
      x == IF p.x = Undefined THEN 10 ELSE p.x[2]
      y == IF p.y = Undefined THEN 10 ELSE p.y[2]
      normalizedKind == normalizeKind(kind)
      styleOverrides == pickStyleOverrides(p.rest)
      catalog == IF TypeOf(normalizedKind) = "string" /\ normalizedKind[2] \in KindNames
                 THEN << <<"style", Kinds[normalizedKind[2]].style>>,
                         <<"width", Num(Kinds[normalizedKind[2]].width)>>,
                         <<"height", Num(Kinds[normalizedKind[2]].height)>> >>
                 ELSE <<>>
      merged == SpreadInto(catalog, p.rest)
      style == GetKey(merged, "style")
      to == IF p.parent = "root" \/ ~hasCell(g, p.parent) THEN LAYER_ID ELSE p.parent
      g1 == insertVertex(g, to, p.id, p.title, x, y,
                         GetKey(merged, "width"), GetKey(merged, "height"))
      node == lastCell(g1)
      adjustedStyle == adjustStyleByKind(style, normalizedKind, p.corner_radius)
  IN Result(putCell(g1, [node EXCEPT !.style = mergeStyleOverrides(adjustedStyle, styleOverrides)]),
            Str(node.id), NO_ERROR)

\* The base object of computeEffectiveLineStyle after the routing style.
EDGE_STYLES ==
  << <<"orthogonal", "orthogonalEdgeStyle">>, <<"elbow", "elbowEdgeStyle">>,
     <<"entity-relation", "entityRelationEdgeStyle">>,
     <<"segment", "segmentEdgeStyle">>, <<"straight", "none">> >>

\* Mutant of computeEffectiveLineStyle: the undirected flag is ignored.
computeEffectiveLineStyleDirected(style, undirected, edgeStyle) ==
  LET base0 == << <<"edgeStyle", Str("none")>>, <<"noEdgeStyle", Num(1)>>,
                  <<"orthogonal", Num(1)>>, <<"html", Num(1)>> >>
      base == IF Truthy(edgeStyle) /\ HasKey(EDGE_STYLES, edgeStyle[2])
              THEN IF GetKey(EDGE_STYLES, edgeStyle[2]) = "none"
                   THEN base0
                   ELSE DeleteKey(SetKey(base0, "edgeStyle", Str(GetKey(EDGE_STYLES, edgeStyle[2]))),
                                  "noEdgeStyle")
              ELSE base0
  IN Obj(SpreadInto(base, style))

\* computeEffectiveLineStyle; style is an entry list, undirected a JS value,
\* edgeStyle Undefined or a Str.
computeEffectiveLineStyle(style, undirected, edgeStyle) ==
  LET base0 == << <<"edgeStyle", Str("none")>>, <<"noEdgeStyle", Num(1)>>,
                  <<"orthogonal", Num(1)>>, <<"html", Num(1)>> >>
      base == IF Truthy(edgeStyle) /\ HasKey(EDGE_STYLES, edgeStyle[2])
              THEN IF GetKey(EDGE_STYLES, edgeStyle[2]) = "none"
                   THEN SetKey(SetKey(base0, "edgeStyle", Str("none")), "noEdgeStyle", Num(1))
                   ELSE DeleteKey(SetKey(base0, "edgeStyle", Str(GetKey(EDGE_STYLES, edgeStyle[2]))),
                                  "noEdgeStyle")
              ELSE base0
      effective == SpreadInto(base, style)
  IN IF Truthy(undirected)
     THEN Obj(SetKey(SetKey(SetKey(effective, "reverse", Undefined),
                            "startArrow", Str("none")),
                     "endArrow", Str("none")))
     ELSE Obj(effective)

\* Mutant of existingLink: the reverse identifier is not looked up.
existingLinkNoReverse(g, idDirect, idReverse, idCanonical) ==
  IF hasCell(g, idDirect) THEN idDirect
  ELSE IF hasCell(g, idCanonical) THEN idCanonical
  ELSE ""

\* The lookup of linkNodes: getCell(idDirect) || getCell(idReverse) ||
\* getCell(idCanonical), as the id found ("" when none is).
existingLink(g, idDirect, idReverse, idCanonical) ==
  IF hasCell(g, idDirect) THEN idDirect
  ELSE IF hasCell(g, idReverse) THEN idReverse
  ELSE IF hasCell(g, idCanonical) THEN idCanonical
  ELSE ""

\* Mutant of idToUse: the direct identifier whatever the undirected flag.
idToUseDirect(undirected, idDirect, idCanonical) == idDirect

\* The id of a newly inserted edge.
idToUse(undirected, idDirect, idCanonical) ==
  IF Truthy(undirected) THEN idCanonical ELSE idDirect

\* Mutant of linkTitle: the label is updated only by a truthy title.
linkTitleTruthy(link, title) ==
  IF Truthy(title) THEN [link EXCEPT !.value = title] ELSE link

\* if (title !== undefined) link.setValue(title), on an existing cell.
linkTitle(link, title) ==
  IF title # Undefined THEN [link EXCEPT !.value = title] ELSE link

\* Mutant of applyWaypoints: the new points are added after the old ones.
applyWaypointsAppend(link, waypoints) ==
  IF waypoints # Undefined /\ Len(waypoints[2]) > 0 /\ link.geometry # Undefined
  THEN [link EXCEPT !.geometry =
          <<"object", [link.geometry[2] EXCEPT !.points =
             IF link.geometry[2].points = Null THEN waypoints
             ELSE Obj(link.geometry[2].points[2] \o waypoints[2])]>>]
  ELSE link

\* The waypoint step of linkNodes on the cell link.
applyWaypoints(link, waypoints) ==
  IF waypoints # Undefined /\ Len(waypoints[2]) > 0 /\ link.geometry # Undefined
  THEN [link EXCEPT !.geometry = <<"object", [link.geometry[2] EXCEPT !.points = waypoints]>>]
  ELSE link

\* Mutant of linkNodes: an existing cell is connected to the call's from
\* and to.
linkNodesRetarget(g, p) ==
  LET fromNode == IF hasCell(g, p.from) THEN Str(p.from) ELSE Null
      toNode == IF hasCell(g, p.to) THEN Str(p.to) ELSE Null
      idDirect == p.from \o "-2-" \o p.to
      idReverse == p.to \o "-2-" \o p.from
      ab == sortPair(p.from, p.to)
      idCanonical == ab[1] \o "-2-" \o ab[2]
      effective == computeEffectiveLineStyle(p.style, p.undirected, p.edgeStyle)
      existing == existingLink(g, idDirect, idReverse, idCanonical)
      g1 == IF existing # ""
            THEN putCell(g, [linkTitle(getCell(g, existing), p.title)
                               EXCEPT !.source = fromNode, !.target = toNode])
            ELSE insertEdge(g, LAYER_ID, idToUse(p.undirected, idDirect, idCanonical),
                            IF Truthy(p.title) THEN p.title ELSE Null, fromNode, toNode)
      link == IF existing # "" THEN getCell(g1, existing) ELSE lastCell(g1)
      styled == [link EXCEPT !.style = toStyleString(effective)]
  IN Result(putCell(g1, applyWaypoints(styled, p.waypoints)), Str(link.id), NO_ERROR)

\* Mutant of linkNodes: the style of an existing cell is kept and the
\* effective style layered over it.
linkNodesLayered(g, p) ==
  LET fromNode == IF hasCell(g, p.from) THEN Str(p.from) ELSE Null
      toNode == IF hasCell(g, p.to) THEN Str(p.to) ELSE Null
      idDirect == p.from \o "-2-" \o p.to
      idReverse == p.to \o "-2-" \o p.from
      ab == sortPair(p.from, p.to)
      idCanonical == ab[1] \o "-2-" \o ab[2]
      effective == computeEffectiveLineStyle(p.style, p.undirected, p.edgeStyle)
      existing == existingLink(g, idDirect, idReverse, idCanonical)
      g1 == IF existing # ""
            THEN putCell(g, linkTitle(getCell(g, existing), p.title))
            ELSE insertEdge(g, LAYER_ID, idToUse(p.undirected, idDirect, idCanonical),
                            IF Truthy(p.title) THEN p.title ELSE Null, fromNode, toNode)
      link == IF existing # "" THEN getCell(g1, existing) ELSE lastCell(g1)
      styled == [link EXCEPT !.style =
                   stringifyStyle(SpreadInto(parseStyle(link.style), effective[2]))]
  IN Result(putCell(g1, applyWaypoints(styled, p.waypoints)), Str(link.id), NO_ERROR)

\* Graph.linkNodes; p = [from, to, title, style, undirected, waypoints, edgeStyle].
linkNodes(g, p) ==
  LET fromNode == IF hasCell(g, p.from) THEN Str(p.from) ELSE Null
      toNode == IF hasCell(g, p.to) THEN Str(p.to) ELSE Null
      idDirect == p.from \o "-2-" \o p.to
      idReverse == p.to \o "-2-" \o p.from
      ab == sortPair(p.from, p.to)
      idCanonical == ab[1] \o "-2-" \o ab[2]
      effective == computeEffectiveLineStyle(p.style, p.undirected, p.edgeStyle)
      existing == existingLink(g, idDirect, idReverse, idCanonical)
      g1 == IF existing # ""
            THEN putCell(g, linkTitle(getCell(g, existing), p.title))
            ELSE insertEdge(g, LAYER_ID, idToUse(p.undirected, idDirect, idCanonical),
                            IF Truthy(p.title) THEN p.title ELSE Null, fromNode, toNode)
      link == IF existing # "" THEN getCell(g1, existing) ELSE lastCell(g1)
      styled == [link EXCEPT !.style = toStyleString(effective)]
  IN Result(putCell(g1, applyWaypoints(styled, p.waypoints)), Str(link.id), NO_ERROR)

\* Mutant of mergeGeometry: x || geometry.x, so a supplied 0 is dropped.
mergeGeometryFalsy(node, x, y, width, height) ==
  IF (x = Undefined /\ y = Undefined /\ width = Undefined /\ height = Undefined)
     \/ node.geometry = Undefined
  THEN [node |-> node, err |-> NO_ERROR]
  ELSE LET geometry == node.geometry[2]
       IN [node |-> [node EXCEPT !.geometry =
              Geometry(IF Truthy(x) THEN x[2] ELSE geometry.x,
                       IF Truthy(y) THEN y[2] ELSE geometry.y,
                       IF Truthy(width) THEN width[2] ELSE geometry.width,
                       IF Truthy(height) THEN height[2] ELSE geometry.height,
                       FALSE, Null)],
           err |-> NO_ERROR]

\* The geometry step of editNode: new mxGeometry(x ?? geometry.x, ...).
\* Reading a field of a missing geometry throws.
mergeGeometry(node, x, y, width, height) ==
  IF x = Undefined /\ y = Undefined /\ width = Undefined /\ height = Undefined
  THEN [node |-> node, err |-> NO_ERROR]
  ELSE IF node.geometry = Undefined
       THEN IF x = Undefined \/ y = Undefined \/ width = Undefined \/ height = Undefined
            THEN [node |-> node, err |-> TYPE_ERROR]
            ELSE [node |-> [node EXCEPT !.geometry =
                              Geometry(x[2], y[2], width[2], height[2], FALSE, Null)],
                  err |-> NO_ERROR]
       ELSE LET geometry == node.geometry[2]
            IN [node |-> [node EXCEPT !.geometry =
                   Geometry(IF x = Undefined THEN geometry.x ELSE x[2],
                            IF y = Undefined THEN geometry.y ELSE y[2],
                            IF width = Undefined THEN geometry.width ELSE width[2],
                            IF height = Undefined THEN geometry.height ELSE height[2],
                            FALSE, Null)],
                err |-> NO_ERROR]

\* node.getStyle() ? String(node.getStyle()) : ''
currentStyleStr(node) ==
  IF Truthy(node.style) THEN StringOfStyle(node.style) ELSE EmptyString

\* if (title) node.setValue(title)
editTitle(node, title) ==
  IF Truthy(title) THEN [node EXCEPT !.value = title] ELSE node

\* Mutant of editKind: a node that has a style keeps it.
editKindOnce(node, kind, normalizedKind) ==
  IF Truthy(kind) /\ ~Truthy(node.style)
  THEN [node EXCEPT !.style = Kinds[normalizedKind[2]].style]
  ELSE node

\* if (kind) node.setStyle(Graph.Kinds[normalizedKind].style); only called
\* for a kind of the catalog.
editKind(node, kind, normalizedKind) ==
  IF Truthy(kind) THEN [node EXCEPT !.style = Kinds[normalizedKind[2]].style] ELSE node

\* The corner-radius step of editNode.
editCornerRadius(node, normalizedKind, corner_radius) ==
  IF normalizedKind = Str(KIND_ROUNDED_RECTANGLE) /\ corner_radius # Undefined
  THEN [node EXCEPT !.style = adjustStyleByKind(currentStyleStr(node), normalizedKind, corner_radius)]
  ELSE node

\* The style-override step of editNode.
editOverrides(node, rest) ==
  LET styleOverrides == pickStyleOverrides(rest)
  IN IF Len(styleOverrides) > 0
     THEN [node EXCEPT !.style = mergeStyleOverrides(currentStyleStr(node), styleOverrides)]
     ELSE node

\* Graph.editNode; p = [id, title, kind, x, y, width, height, corner_radius, rest].
editNode(g, p) ==
  IF ~hasCell(g, p.id) THEN Result(g, Undefined, NOT_FOUND)
  ELSE
    LET node == getCell(g, p.id)
        normalizedKind == normalizeKind(p.kind)
        n1 == editTitle(node, p.title)
    IN IF Truthy(p.kind) /\ ~(TypeOf(normalizedKind) = "string" /\ normalizedKind[2] \in KindNames)
       THEN Result(putCell(g, n1), Undefined, TYPE_ERROR)
       ELSE
         LET n2 == editKind(n1, p.kind, normalizedKind)
             n3 == editCornerRadius(n2, normalizedKind, p.corner_radius)
             n4 == editOverrides(n3, p.rest)
             geo == mergeGeometry(n4, p.x, p.y, p.width, p.height)
         IN Result(putCell(g, geo.node), Undefined, geo.err)

(***************************************************************************)
(* State.                                                                  *)
(*   graph  the Graph instance the calls act on                            *)
(*   last   the last call: operation, parameters, returned id, error       *)
(*   pre    the graph just before the last call                            *)
(*   calls  how many addNode / linkNodes / editNode calls were made        *)
(*   owner  history of the current run of linkNodes calls on one endpoint  *)
(*          pair: the pair and the id the first of them returned           *)
(*   file   the persisted document (the saved cells)                       *)
(*   pc     where the running tool invocation stands                       *)
(*   run    the running tool invocation: tool, arguments, the document at  *)
(*          its start, loads and saves made, mutations applied, error      *)
(*   procs  the tool invocations that run concurrently on the document:   *)
(*          each one's position, arguments, loaded graph and error         *)
(***************************************************************************)
VARIABLES graph, last, pre, calls, owner, file, pc, run, procs

vars == <<graph, last, pre, calls, owner, file, pc, run, procs>>
apiVars == <<last, pre, calls, owner>>
toolVars == <<file, pc, run, procs>>

MaxAdd == 2
MaxLink == 2
MaxEdit == 1

NoCall == [op |-> "new", p |-> <<>>, ret |-> Undefined, err |-> NO_ERROR]
NoOwner == [pair |-> {}, id |-> ""]
NoProcs == <<>>
NoRun == [tool |-> "none", file_path |-> Undefined, items |-> Undefined, before |-> <<>>,
          loads |-> 0, saves |-> 0, applied |-> 0, err |-> NO_ERROR, n |-> 0]

\* Inputs of addNode: one call per identifier.
SvcNode ==
  [id |-> "svc", parent |-> "root", title |-> Str("Service"), kind |-> Undefined,
   x |-> Num(100), y |-> Num(150), corner_radius |-> Undefined, rest |-> <<>>]

DbNode ==
  [id |-> "db", parent |-> "root", title |-> Undefined, kind |-> Str("Cylinder"),
   x |-> Undefined, y |-> Undefined, corner_radius |-> Undefined,
   rest |-> << <<"fillColor", Str("#dae8fc")>> >>]

NoteNode ==
  [id |-> "svc-2-db", parent |-> "root", title |-> Str("Note"),
   kind |-> Str("RoundedRectangle"), x |-> Num(0), y |-> Num(0),
   corner_radius |-> Num(5), rest |-> <<>>]

AddInputs == { SvcNode, DbNode, NoteNode }

\* Inputs of linkNodes.
LinkPairs == { <<"svc", "db">>, <<"db", "svc">>, <<"svc", "ghost">> }

LinkProfiles ==
  { [title |-> Str("queries"), undirected |-> Undefined, style |-> <<>>],
    [title |-> Str("reads"), undirected |-> Bool(FALSE),
     style |-> << <<"dashed", Num(1)>> >>],
    [title |-> Undefined, undirected |-> Bool(TRUE), style |-> <<>>],
    [title |-> Str(""), undirected |-> Bool(TRUE),
     style |-> << <<"dashed", Num(1)>>, <<"reverse", Bool(TRUE)>> >>] }

LinkInputs ==
  { [from |-> e[1], to |-> e[2], title |-> f.title, style |-> f.style,
     undirected |-> f.undirected, waypoints |-> Undefined, edgeStyle |-> Undefined] :
       e \in LinkPairs, f \in LinkProfiles }

\* Inputs of editNode.
EditIds == {"svc", "db", "svc-2-db", "1", "ghost"}

EditProfiles ==
  { [title |-> Str("Billing"), kind |-> Undefined, x |-> Undefined, y |-> Undefined,
     width |-> Undefined, height |-> Undefined, corner_radius |-> Undefined, rest |-> <<>>],
    [title |-> Str(""), kind |-> Undefined, x |-> Undefined, y |-> Undefined,
     width |-> Undefined, height |-> Undefined, corner_radius |-> Undefined, rest |-> <<>>],
    [title |-> Undefined, kind |-> Undefined, x |-> Undefined, y |-> Num(300),
     width |-> Undefined, height |-> Undefined, corner_radius |-> Undefined, rest |-> <<>>],
    [title |-> Undefined, kind |-> Undefined, x |-> Num(0), y |-> Undefined,
     width |-> Num(50), height |-> Num(0), corner_radius |-> Undefined, rest |-> <<>>],
    [title |-> Undefined, kind |-> Str("Cloud"), x |-> Undefined, y |-> Undefined,
     width |-> Undefined, height |-> Undefined, corner_radius |-> Undefined, rest |-> <<>>],
    [title |-> Undefined, kind |-> Undefined, x |-> Undefined, y |-> Undefined,
     width |-> Undefined, height |-> Undefined, corner_radius |-> Undefined,
     rest |-> << <<"fillColor", Str("#ffffff")>>, <<"opacity", Num(0)>> >>],
    [title |-> Str("Billing"), kind |-> Str("RoundedRectangle"), x |-> Num(7), y |-> Num(8),
     width |-> Num(9), height |-> Num(10), corner_radius |-> Num(5),
     rest |-> << <<"strokeColor", Str("#6c8ebf")>> >>],
    [title |-> Str("Billing"), kind |-> Str("Hexagon"), x |-> Undefined, y |-> Undefined,
     width |-> Undefined, height |-> Undefined, corner_radius |-> Undefined, rest |-> <<>>] }

EditInputs ==
  { [id |-> i, title |-> f.title, kind |-> f.kind, x |-> f.x, y |-> f.y, width |-> f.width,
     height |-> f.height, corner_radius |-> f.corner_radius, rest |-> f.rest] :
       i \in EditIds, f \in EditProfiles }

Init ==
  /\ graph = NewGraph
  /\ last = NoCall
  /\ pre = NewGraph
  /\ calls = [add |-> 0, link |-> 0, edit |-> 0, remove |-> 0, layout |-> 0]
  /\ owner = NoOwner
  /\ file = NewGraph.cells
  /\ pc = "idle"
  /\ run = NoRun
  /\ procs = NoProcs

\* Is the cell under id an edge whose terminals are the cells from and to,
\* in either order.
connects(g, id, from, to) ==
  /\ hasCell(g, id)
  /\ getCell(g, id).edge
  /\ \/ getCell(g, id).source = Str(from) /\ getCell(g, id).target = Str(to)
     \/ getCell(g, id).source = Str(to) /\ getCell(g, id).target = Str(from)

\* A call graph.addNode(p).
AddNode ==
  /\ calls.add < MaxAdd
  /\ \E p \in AddInputs :
    \E r \in {addNode(graph, p)} :
       /\ graph' = r.g
       /\ last' = [op |-> "addNode", p |-> p, ret |-> r.ret, err |-> r.err]
       /\ pre' = graph
       /\ calls' = [calls EXCEPT !.add = @ + 1]
       /\ owner' = NoOwner
       /\ UNCHANGED toolVars

\* A call graph.linkNodes(p).
LinkNodes ==
  /\ calls.link < MaxLink
  /\ \E p \in LinkInputs :
    \E r \in {linkNodes(graph, p)} :
       /\ graph' = r.g
       /\ last' = [op |-> "linkNodes", p |-> p, ret |-> r.ret, err |-> r.err]
       /\ pre' = graph
       /\ calls' = [calls EXCEPT !.link = @ + 1]
       /\ owner' = IF owner.pair = {p.from, p.to} THEN owner
                   ELSE IF connects(r.g, r.ret[2], p.from, p.to)
                        THEN [pair |-> {p.from, p.to}, id |-> r.ret[2]]
                        ELSE NoOwner
       /\ UNCHANGED toolVars

\* A call graph.editNode(p).
EditNode ==
  /\ calls.edit < MaxEdit
  /\ \E p \in EditInputs :
    \E r \in {editNode(graph, p)} :
       /\ graph' = r.g
       /\ last' = [op |-> "editNode", p |-> p, ret |-> r.ret, err |-> r.err]
       /\ pre' = graph
       /\ calls' = [calls EXCEPT !.edit = @ + 1]
       /\ UNCHANGED owner
       /\ UNCHANGED toolVars

Next == AddNode \/ LinkNodes \/ EditNode

Spec == Init /\ [][Next]_vars

(***************************************************************************)
(* The same three operations on the pair svc, db with a third node whose   *)
(* identifier has the form of an edge identifier: long enough call         *)
(* sequences to add that node after the pair was linked and to link the    *)
(* pair twice more.                                                        *)
(***************************************************************************)
MaxPairAdd == 3
MaxPairLink == 3
MaxPairEdit == 1

PairLinkInputs ==
  { p \in LinkInputs :
      /\ {p.from, p.to} = {"svc", "db"}
      /\ p.title \in {Str("queries"), Undefined} }

PairEditInputs ==
  { p \in EditInputs :
      /\ p.id \in {"svc", "svc-2-db"}
      /\ p.title = Str("Billing") /\ p.kind = Undefined }

\* A call graph.addNode(p).
PairAddNode ==
  /\ calls.add < MaxPairAdd
  /\ \E p \in AddInputs :
    \E r \in {addNode(graph, p)} :
       /\ graph' = r.g
       /\ last' = [op |-> "addNode", p |-> p, ret |-> r.ret, err |-> r.err]
       /\ pre' = graph
       /\ calls' = [calls EXCEPT !.add = @ + 1]
       /\ owner' = NoOwner
       /\ UNCHANGED toolVars

\* A call graph.linkNodes(p).
PairLinkNodes ==
  /\ calls.link < MaxPairLink
  /\ \E p \in PairLinkInputs :
    \E r \in {linkNodes(graph, p)} :
       /\ graph' = r.g
       /\ last' = [op |-> "linkNodes", p |-> p, ret |-> r.ret, err |-> r.err]
       /\ pre' = graph
       /\ calls' = [calls EXCEPT !.link = @ + 1]
       /\ owner' = IF owner.pair = {p.from, p.to} THEN owner
                   ELSE IF connects(r.g, r.ret[2], p.from, p.to)
                        THEN [pair |-> {p.from, p.to}, id |-> r.ret[2]]
                        ELSE NoOwner
       /\ UNCHANGED toolVars

\* A call graph.editNode(p).
PairEditNode ==
  /\ calls.edit < MaxPairEdit
  /\ \E p \in PairEditInputs :
    \E r \in {editNode(graph, p)} :
       /\ graph' = r.g
       /\ last' = [op |-> "editNode", p |-> p, ret |-> r.ret, err |-> r.err]
       /\ pre' = graph
       /\ calls' = [calls EXCEPT !.edit = @ + 1]
       /\ UNCHANGED owner
       /\ UNCHANGED toolVars

PairNext == PairAddNode \/ PairLinkNodes \/ PairEditNode

PairSpec == Init /\ [][PairNext]_vars

(***************************************************************************)
(* The edit_nodes and link_nodes tools: load the document, apply the batch *)
(* in array order on the loaded graph, save once.                          *)
(***************************************************************************)
MaxBatch == 2
MaxInvocations == 2

INVALID_PARAMS == "InvalidParams"

SeqsUpTo(S, n) == UNION { [1..k -> S] : k \in 0..n }

\* Entries of the nodes array of edit_nodes.
EditItems ==
  { [id |-> "svc", title |-> Str("Billing"), kind |-> Undefined, x |-> Undefined,
     y |-> Undefined, width |-> Undefined, height |-> Undefined,
     corner_radius |-> Undefined, rest |-> <<>>],
    [id |-> "ghost", title |-> Str("Billing"), kind |-> Undefined, x |-> Undefined,
     y |-> Undefined, width |-> Undefined, height |-> Undefined,
     corner_radius |-> Undefined, rest |-> <<>>],
    [id |-> "db", title |-> Undefined, kind |-> Undefined, x |-> Undefined,
     y |-> Num(300), width |-> Undefined, height |-> Undefined,
     corner_radius |-> Num(0), rest |-> << <<"fillColor", Str("#ffffff")>> >>],
    [id |-> "svc", title |-> Str("Ledger"), kind |-> Str("Hexagon"), x |-> Undefined,
     y |-> Undefined, width |-> Undefined, height |-> Undefined,
     corner_radius |-> Undefined, rest |-> <<>>] }

\* Entries of the edges array of link_nodes.
LinkItems ==
  { [from |-> "svc", to |-> "db", title |-> Str("queries"), dashed |-> Undefined,
     reverse |-> Undefined, undirected |-> Undefined, rest |-> <<>>],
    [from |-> "db", to |-> "svc", title |-> Str("reads"), dashed |-> Bool(TRUE),
     reverse |-> Undefined, undirected |-> Bool(TRUE), rest |-> <<>>],
    [from |-> "svc", to |-> "ghost", title |-> Undefined, dashed |-> Bool(FALSE),
     reverse |-> Bool(TRUE), undirected |-> Undefined,
     rest |-> << <<"strokeColor", Str("#6c8ebf")>> >>] }

FilePaths == { Str("diagram.drawio.svg"), Undefined }

ToolArgs ==
  { [tool |-> "edit_nodes", file_path |-> f, items |-> Obj(b)] :
      f \in FilePaths, b \in SeqsUpTo(EditItems, MaxBatch) }
  \cup
  { [tool |-> "link_nodes", file_path |-> f, items |-> Obj(b)] :
      f \in FilePaths, b \in SeqsUpTo(LinkItems, MaxBatch) }
  \cup
  { [tool |-> t, file_path |-> Str("diagram.drawio.svg"), items |-> Undefined] :
      t \in {"edit_nodes", "link_nodes"} }

\* Documents a session can start from: a new diagram, one with two nodes,
\* one with two linked nodes.
TwoNodes == addNode(addNode(NewGraph, SvcNode).g, DbNode).g

Linked ==
  linkNodes(TwoNodes, [from |-> "svc", to |-> "db", title |-> Str("queries"), style |-> <<>>,
                       undirected |-> Undefined, waypoints |-> Undefined,
                       edgeStyle |-> Undefined]).g

InitialDocs == { NewGraph.cells, TwoNodes.cells, Linked.cells }

RECURSIVE maxNumericId(_, _)
maxNumericId(cells, acc) ==
  IF cells = <<>> THEN acc
  ELSE maxNumericId(Tail(cells),
                    IF isNumeric(cells[1].id) /\ numericValue(cells[1].id) > acc
                    THEN numericValue(cells[1].id) ELSE acc)

\* GraphFileManager.loadGraphFromSvg: the saved cells decoded into a new
\* Graph; decoding leaves nextId at the largest numeric identifier.
loadGraphFromSvg(doc) == [cells |-> doc, nextId |-> maxNumericId(doc, 0)]

\* GraphFileManager.saveGraphToSvg: the document now holds the graph's cells.
saveGraphToSvg(g) == g.cells

\* The editNode argument EditNodeTool.execute builds from a nodes entry.
editNodeParams(node) ==
  [id |-> node.id, title |-> node.title,
   kind |-> IF Truthy(node.kind) THEN normalizeKind(node.kind) ELSE Undefined,
   x |-> node.x, y |-> node.y, width |-> node.width, height |-> node.height,
   corner_radius |-> IF Truthy(node.corner_radius) THEN node.corner_radius ELSE Undefined,
   rest |-> node.rest]

LINK_STYLE_KEYS ==
  <<"strokeColor", "fontColor", "strokeWidth", "fontSize", "fontStyle", "fontFamily",
    "opacity">>

\* The linkNodes argument LinkNodesTool.execute builds from an edges entry.
linkNodesParams(edge) ==
  [from |-> edge.from, to |-> edge.to, title |-> edge.title,
   style |-> (IF Truthy(edge.dashed) THEN << <<"dashed", Num(1)>> >> ELSE <<>>)
             \o (IF Truthy(edge.reverse) THEN << <<"reverse", Bool(TRUE)>> >> ELSE <<>>)
             \o PickKeys(edge.rest, LINK_STYLE_KEYS, <<>>),
   undirected |-> edge.undirected, waypoints |-> Undefined, edgeStyle |-> Undefined]

\* One mutation of the batch.
applyItem(tool, g, item) ==
  IF tool = "edit_nodes" THEN editNode(g, editNodeParams(item))
  ELSE linkNodes(g, linkNodesParams(item))

RECURSIVE applyBatchBackwards(_, _, _, _)
\* Mutant of applyBatch: the mutations are applied from the last to the first.
applyBatchBackwards(tool, g, items, applied) ==
  IF items = <<>> THEN [g |-> g, err |-> NO_ERROR, applied |-> applied]
  ELSE LET r == applyItem(tool, g, items[Len(items)])
       IN IF r.err # NO_ERROR THEN [g |-> r.g, err |-> r.err, applied |-> applied]
          ELSE applyBatchBackwards(tool, r.g, SubSeq(items, 1, Len(items) - 1), applied + 1)

RECURSIVE applyBatch(_, _, _, _)
\* The for loop of execute: mutations in array order, stopping at the first
\* one that throws; the graph keeps what was applied before it.
applyBatch(tool, g, items, applied) ==
  IF items = <<>> THEN [g |-> g, err |-> NO_ERROR, applied |-> applied]
  ELSE LET r == applyItem(tool, g, items[1])
       IN IF r.err # NO_ERROR THEN [g |-> r.g, err |-> r.err, applied |-> applied]
          ELSE applyBatch(tool, r.g, Tail(items), applied + 1)

\* Mutant of afterBatch: the document is saved whether or not a mutation threw.
afterBatchAlwaysSave(err) == "saving"

\* Where execute goes after the loop: an exception leaves it, skipping save.
afterBatch(err) == IF err # NO_ERROR THEN "failed" ELSE "saving"

\* if (!file_path || !items || !items.length) throw InvalidParams
invalidParams(a) ==
  \/ ~Truthy(a.file_path)
  \/ ~Truthy(a.items)
  \/ Len(a.items[2]) = 0

ToolInit ==
  /\ graph = NewGraph
  /\ last = NoCall
  /\ pre = NewGraph
  /\ calls = [add |-> 0, link |-> 0, edit |-> 0, remove |-> 0, layout |-> 0]
  /\ owner = NoOwner
  /\ file \in InitialDocs
  /\ pc = "idle"
  /\ run = NoRun
  /\ procs = NoProcs

\* execute is called: the parameter check.
ToolInvoke ==
  /\ pc \in {"idle", "done", "failed", "invalid"}
  /\ run.n < MaxInvocations
  /\ \E a \in ToolArgs :
       /\ run' = [tool |-> a.tool, file_path |-> a.file_path, items |-> a.items,
                  before |-> file, loads |-> 0, saves |-> 0, applied |-> 0,
                  err |-> IF invalidParams(a) THEN INVALID_PARAMS ELSE NO_ERROR,
                  n |-> run.n + 1]
       /\ pc' = IF invalidParams(a) THEN "invalid" ELSE "loading"
  /\ UNCHANGED <<graph, file, apiVars, procs>>

\* await fileManager.loadGraphFromSvg(file_path)
ToolLoad ==
  /\ pc = "loading"
  /\ graph' = loadGraphFromSvg(file)
  /\ run' = [run EXCEPT !.loads = @ + 1]
  /\ pc' = "loaded"
  /\ UNCHANGED <<file, apiVars, procs>>

\* The synchronous loop over the array.
ToolApply ==
  /\ pc = "loaded"
  /\ \E r \in {applyBatch(run.tool, graph, run.items[2], 0)} :
       /\ graph' = r.g
       /\ run' = [run EXCEPT !.applied = r.applied, !.err = r.err]
       /\ pc' = afterBatch(r.err)
  /\ UNCHANGED <<file, apiVars, procs>>

\* await fileManager.saveGraphToSvg(graph, file_path)
ToolSave ==
  /\ pc = "saving"
  /\ file' = saveGraphToSvg(graph)
  /\ run' = [run EXCEPT !.saves = @ + 1]
  /\ pc' = "done"
  /\ UNCHANGED <<graph, apiVars, procs>>

ToolNext == ToolInvoke \/ ToolLoad \/ ToolApply \/ ToolSave

ToolSpec == ToolInit /\ [][ToolNext]_vars

(***************************************************************************)
(* addNode and editNode over the kind catalog: one node "svc" added with   *)
(* any kind (catalog kinds, the legacy spelling, an unknown kind) and any  *)
(* corner radius, then edited.                                             *)
(***************************************************************************)
MaxRadius == 5
MaxKindAdd == 1
MaxKindEdit == 2

\* The kind arguments: omitted, every catalog kind, 'Elipse', an unknown one.
KindArgs == {Undefined, Str("Elipse"), Str("Hexagon")} \cup { Str(k) : k \in KindNames }

\* The corner_radius arguments (the schema asks for an integer >= 1).
RadiusArgs == {Undefined} \cup { Num(r) : r \in 1..MaxRadius }

KindAddInputs ==
  { [id |-> "svc", parent |-> "root", title |-> Str("Service"), kind |-> k,
     x |-> Num(100), y |-> Num(150), corner_radius |-> c, rest |-> o] :
       k \in KindArgs, c \in RadiusArgs,
       o \in { <<>>, << <<"fillColor", Str("#dae8fc")>> >>, << <<"width", Num(200)>> >> } }

KindEditInputs ==
  { [id |-> "svc", title |-> Undefined, kind |-> k, x |-> Undefined, y |-> Undefined,
     width |-> Undefined, height |-> Undefined, corner_radius |-> c, rest |-> o] :
       k \in {Undefined, Str("RoundedRectangle"), Str("Rectangle"), Str("Cloud"),
              Str("Hexagon")},
       c \in RadiusArgs,
       o \in { <<>>, << <<"fillColor", Str("#ffffff")>> >> } }

\* A call graph.addNode(p).
KindAddNode ==
  /\ calls.add < MaxKindAdd
  /\ \E p \in KindAddInputs :
    \E r \in {addNode(graph, p)} :
       /\ graph' = r.g
       /\ last' = [op |-> "addNode", p |-> p, ret |-> r.ret, err |-> r.err]
       /\ pre' = graph
       /\ calls' = [calls EXCEPT !.add = @ + 1]
       /\ UNCHANGED <<owner, toolVars>>

\* A call graph.editNode(p).
KindEditNode ==
  /\ calls.edit < MaxKindEdit
  /\ \E p \in KindEditInputs :
    \E r \in {editNode(graph, p)} :
       /\ graph' = r.g
       /\ last' = [op |-> "editNode", p |-> p, ret |-> r.ret, err |-> r.err]
       /\ pre' = graph
       /\ calls' = [calls EXCEPT !.edit = @ + 1]
       /\ UNCHANGED <<owner, toolVars>>

KindNext == KindAddNode \/ KindEditNode

KindSpec == Init /\ [][KindNext]_vars

(***************************************************************************)
(* Tool invocations that overlap on one document.  execute awaits the load *)
(* and the save, so another invocation can load or save between the two;   *)
(* the loop between them runs without interruption on the invocation's own *)
(* graph.                                                                  *)
(***************************************************************************)
MaxConcurrent == 2

Invocations == 1..MaxConcurrent

\* Arguments that pass the parameter check, with one mutation each.
RaceArgs ==
  { a \in ToolArgs : ~invalidParams(a) /\ Len(a.items[2]) = 1 }

Idle ==
  [pc |-> "idle", tool |-> "none", items |-> Undefined, loaded |-> <<>>,
   graph |-> NewGraph, err |-> NO_ERROR]

RaceInit ==
  /\ graph = NewGraph
  /\ last = NoCall
  /\ pre = NewGraph
  /\ calls = [add |-> 0, link |-> 0, edit |-> 0, remove |-> 0, layout |-> 0]
  /\ owner = NoOwner
  /\ file \in InitialDocs
  /\ pc = "idle"
  /\ run = NoRun
  /\ procs = [i \in Invocations |-> Idle]

\* Invocation i of execute starts and passes the parameter check.
RaceInvoke(i) ==
  /\ procs[i].pc = "idle"
  /\ \E a \in RaceArgs :
       procs' = [procs EXCEPT ![i] = [@ EXCEPT !.pc = "loading", !.tool = a.tool,
                                                !.items = a.items]]
  /\ UNCHANGED <<graph, file, pc, run, apiVars>>

\* const graph = await fileManager.loadGraphFromSvg(file_path)
RaceLoad(i) ==
  /\ procs[i].pc = "loading"
  /\ procs' = [procs EXCEPT ![i] = [@ EXCEPT !.pc = "loaded", !.loaded = file,
                                              !.graph = loadGraphFromSvg(file)]]
  /\ UNCHANGED <<graph, file, pc, run, apiVars>>

\* The loop over the array, on the invocation's own graph.
RaceApply(i) ==
  /\ procs[i].pc = "loaded"
  /\ \E r \in {applyBatch(procs[i].tool, procs[i].graph, procs[i].items[2], 0)} :
       procs' = [procs EXCEPT ![i] = [@ EXCEPT !.pc = afterBatch(r.err), !.graph = r.g,
                                                !.err = r.err]]
  /\ UNCHANGED <<graph, file, pc, run, apiVars>>

\* Mutant of RaceSave: the batch is applied again to the document as it is
\* at the time of the save.
RaceSaveMerged(i) ==
  /\ procs[i].pc = "saving"
  /\ file' = saveGraphToSvg(
               applyBatch(procs[i].tool, loadGraphFromSvg(file), procs[i].items[2], 0).g)
  /\ procs' = [procs EXCEPT ![i] = [@ EXCEPT !.pc = "done"]]
  /\ last' = [op |-> "saveGraphToSvg", p |-> i, ret |-> Undefined, err |-> NO_ERROR]
  /\ UNCHANGED <<graph, pc, run, pre, calls, owner>>

\* await fileManager.saveGraphToSvg(graph, file_path): the document becomes
\* the invocation's graph, whatever was saved since its load.
RaceSave(i) ==
  /\ procs[i].pc = "saving"
  /\ file' = saveGraphToSvg(procs[i].graph)
  /\ procs' = [procs EXCEPT ![i] = [@ EXCEPT !.pc = "done"]]
  /\ last' = [op |-> "saveGraphToSvg", p |-> i, ret |-> Undefined, err |-> NO_ERROR]
  /\ UNCHANGED <<graph, pc, run, pre, calls, owner>>

RaceNext ==
  \E i \in Invocations : RaceInvoke(i) \/ RaceLoad(i) \/ RaceApply(i) \/ RaceSave(i)

RaceSpec == RaceInit /\ [][RaceNext]_vars

(***************************************************************************)
(* parseStyle and stringifyStyle on style mappings: ordered key -> string  *)
(* pairs with distinct keys; a value may be empty and may contain '='.     *)
(***************************************************************************)
MaxStyleKeys == 2

StyleMappingKeys == {"rounded", "shape", "link"}

StyleMappingValues == {Str(""), Str("1"), Str("cloud"), Str("https://x?a=b"), Str("a=b=c")}

StyleMappings ==
  { m \in SeqsUpTo(StyleMappingKeys \X StyleMappingValues, MaxStyleKeys) :
      \A i \in 1..Len(m) : \A j \in 1..Len(m) : i # j => m[i][1] # m[j][1] }

\* parseStyle(stringifyStyle(m)) for a style mapping m.
StyleRoundTrip ==
  \E m \in StyleMappings :
    /\ last' = [op |-> "roundTrip", p |-> m, ret |-> parseStyle(stringifyStyle(m)),
                err |-> NO_ERROR]
    /\ UNCHANGED <<graph, pre, calls, owner, toolVars>>

StyleSpec == Init /\ [][StyleRoundTrip]_vars

(***************************************************************************)
(* mergeStyleOverrides and parseStyle on style strings: the strings that   *)
(* stringifyStyle writes for the style mappings, and three catalog styles  *)
(* (Text carries fillColor and strokeColor).  Overrides are ordered        *)
(* key -> value pairs with distinct keys; a value may be undefined.        *)
(***************************************************************************)
MaxOverrides == 2

MergeStyleStrings ==
  { stringifyStyle(m) : m \in StyleMappings }
  \cup { Kinds["Text"].style, Kinds["Cloud"].style, Kinds["RoundedRectangle"].style }

MergeOverrides ==
  { o \in SeqsUpTo({"fillColor", "opacity"} \X {Undefined, Str("#dae8fc"), Str(""), Num(0)},
                   MaxOverrides) :
      \A i \in 1..Len(o) : \A j \in 1..Len(o) : i # j => o[i][1] # o[j][1] }

\* A call mergeStyleOverrides(styleStr, overrides) on a new Graph.
StyleMerge ==
  /\ last = NoCall
  /\ \E s \in MergeStyleStrings : \E o \in MergeOverrides :
    /\ last' = [op |-> "mergeStyleOverrides", p |-> [styleStr |-> s, overrides |-> o],
                ret |-> mergeStyleOverrides(s, o), err |-> NO_ERROR]
    /\ UNCHANGED <<graph, pre, calls, owner, toolVars>>

\* A call parseStyle(style) on a style string, on a new Graph.
StyleParse ==
  /\ last = NoCall
  /\ \E s \in MergeStyleStrings :
    /\ last' = [op |-> "parseStyle", p |-> s, ret |-> parseStyle(s), err |-> NO_ERROR]
    /\ UNCHANGED <<graph, pre, calls, owner, toolVars>>

StyleOpsNext == StyleMerge \/ StyleParse

StyleOpsSpec == Init /\ [][StyleOpsNext]_vars

(***************************************************************************)
(* linkNodes on the pair svc, db with every parameter of LinkNodesParams   *)
(* in use: caller-supplied style keys (dashed, reverse, arrowheads, stroke *)
(* colour), the undirected flag, waypoints and the routing style; editNode *)
(* on the edge in between.                                                 *)
(***************************************************************************)
MaxEdgeAdd == 2
MaxEdgeLink == 2
MaxEdgeEdit == 1

Waypoint(x, y) == [x |-> x, y |-> y]

EdgeProfiles ==
  { [title |-> Str("queries"), style |-> <<>>, undirected |-> Undefined,
     waypoints |-> Undefined, edgeStyle |-> Undefined],
    [title |-> Undefined,
     style |-> << <<"dashed", Num(1)>>, <<"strokeColor", Str("#6c8ebf")>> >>,
     undirected |-> Bool(FALSE),
     waypoints |-> Obj(<< Waypoint(10, 20), Waypoint(30, 40) >>),
     edgeStyle |-> Str("orthogonal")],
    [title |-> Undefined,
     style |-> << <<"reverse", Bool(TRUE)>>, <<"startArrow", Str("classic")>>,
                  <<"endArrow", Str("block")>>, <<"dashed", Num(1)>> >>,
     undirected |-> Bool(TRUE),
     waypoints |-> Obj(<< Waypoint(50, 60) >>),
     edgeStyle |-> Undefined],
    [title |-> Undefined,
     style |-> << <<"reverse", Bool(TRUE)>>, <<"startArrow", Str("classic")>>,
                  <<"endArrow", Str("block")>>, <<"dashed", Num(1)>> >>,
     undirected |-> Undefined,
     waypoints |-> Obj(<<>>),
     edgeStyle |-> Str("straight")],
    [title |-> Undefined,
     style |-> << <<"reverse", Bool(FALSE)>> >>,
     undirected |-> Undefined,
     waypoints |-> Undefined,
     edgeStyle |-> Str("zigzag")],
    [title |-> Undefined,
     style |-> << <<"startArrow", Str("oval")>> >>,
     undirected |-> Bool(TRUE),
     waypoints |-> Undefined,
     edgeStyle |-> Str("elbow")] }

EdgeLinkInputs ==
  { [from |-> e[1], to |-> e[2], title |-> f.title, style |-> f.style,
     undirected |-> f.undirected, waypoints |-> f.waypoints, edgeStyle |-> f.edgeStyle] :
       e \in { <<"svc", "db">>, <<"db", "svc">> }, f \in EdgeProfiles }

EdgeEditInputs ==
  { [id |-> i, title |-> Undefined, kind |-> Undefined, x |-> Undefined, y |-> Undefined,
     width |-> Undefined, height |-> Undefined, corner_radius |-> Undefined,
     rest |-> << <<"strokeColor", Str("#ff0000")>> >>] : i \in {"svc-2-db", "db-2-svc"} }

\* A call graph.addNode(p).
EdgeAddNode ==
  /\ calls.add < MaxEdgeAdd
  /\ \E p \in {SvcNode, DbNode} :
    \E r \in {addNode(graph, p)} :
       /\ graph' = r.g
       /\ last' = [op |-> "addNode", p |-> p, ret |-> r.ret, err |-> r.err]
       /\ pre' = graph
       /\ calls' = [calls EXCEPT !.add = @ + 1]
       /\ owner' = NoOwner
       /\ UNCHANGED toolVars

\* A call graph.linkNodes(p).
EdgeLinkNodes ==
  /\ calls.link < MaxEdgeLink
  /\ \E p \in EdgeLinkInputs :
    \E r \in {linkNodes(graph, p)} :
       /\ graph' = r.g
       /\ last' = [op |-> "linkNodes", p |-> p, ret |-> r.ret, err |-> r.err]
       /\ pre' = graph
       /\ calls' = [calls EXCEPT !.link = @ + 1]
       /\ owner' = IF owner.pair = {p.from, p.to} THEN owner
                   ELSE IF connects(r.g, r.ret[2], p.from, p.to)
                        THEN [pair |-> {p.from, p.to}, id |-> r.ret[2]]
                        ELSE NoOwner
       /\ UNCHANGED toolVars

\* A call graph.editNode(p).
EdgeEditNode ==
  /\ calls.edit < MaxEdgeEdit
  /\ \E p \in EdgeEditInputs :
    \E r \in {editNode(graph, p)} :
       /\ graph' = r.g
       /\ last' = [op |-> "editNode", p |-> p, ret |-> r.ret, err |-> r.err]
       /\ pre' = graph
       /\ calls' = [calls EXCEPT !.edit = @ + 1]
       /\ UNCHANGED owner
       /\ UNCHANGED toolVars

EdgeNext == EdgeAddNode \/ EdgeLinkNodes \/ EdgeEditNode

EdgeSpec == Init /\ [][EdgeNext]_vars

(***************************************************************************)
(* linkNodes between nodes whose identifiers contain the separator "-2-":  *)
(* the nodes svc, db-2-svc and svc-2-db, and the endpoint pairs            *)
(* (svc, db-2-svc) and (svc-2-db, svc).                                    *)
(***************************************************************************)
MaxCollideAdd == 3
MaxCollideLink == 2

Db2SvcNode ==
  [id |-> "db-2-svc", parent |-> "root", title |-> Str("Replica"), kind |-> Undefined,
   x |-> Num(200), y |-> Num(150), corner_radius |-> Undefined, rest |-> <<>>]

CollideLinkInputs ==
  { [from |-> e[1], to |-> e[2], title |-> f.title, style |-> f.style,
     undirected |-> f.undirected, waypoints |-> Undefined, edgeStyle |-> Undefined] :
       e \in { <<"svc", "db-2-svc">>, <<"svc-2-db", "svc">> },
       f \in { g \in LinkProfiles : g.title \in {Str("queries"), Str("reads")} } }

\* A call graph.addNode(p).
CollideAddNode ==
  /\ calls.add < MaxCollideAdd
  /\ \E p \in {SvcNode, NoteNode, Db2SvcNode} :
    \E r \in {addNode(graph, p)} :
       /\ graph' = r.g
       /\ last' = [op |-> "addNode", p |-> p, ret |-> r.ret, err |-> r.err]
       /\ pre' = graph
       /\ calls' = [calls EXCEPT !.add = @ + 1]
       /\ owner' = NoOwner
       /\ UNCHANGED toolVars

\* A call graph.linkNodes(p).
CollideLinkNodes ==
  /\ calls.link < MaxCollideLink
  /\ \E p \in CollideLinkInputs :
    \E r \in {linkNodes(graph, p)} :
       /\ graph' = r.g
       /\ last' = [op |-> "linkNodes", p |-> p, ret |-> r.ret, err |-> r.err]
       /\ pre' = graph
       /\ calls' = [calls EXCEPT !.link = @ + 1]
       /\ owner' = IF owner.pair = {p.from, p.to} THEN owner
                   ELSE IF connects(r.g, r.ret[2], p.from, p.to)
                        THEN [pair |-> {p.from, p.to}, id |-> r.ret[2]]
                        ELSE NoOwner
       /\ UNCHANGED toolVars

CollideNext == CollideAddNode \/ CollideLinkNodes

CollideSpec == Init /\ [][CollideNext]_vars

(***************************************************************************)
(* Graph.removeNodes and Graph.applyLayout.                                *)
(***************************************************************************)
CellsOf(g) == { g.cells[i] : i \in 1..Len(g.cells) }

RECURSIVE withDescendants(_, _)
\* The cells named in ids together with the cells below them in the
\* parent hierarchy.
withDescendants(g, ids) ==
  LET children == { c.id : c \in { d \in CellsOf(g) : \E i \in ids : d.parent = Str(i) } }
  IN IF children \subseteq ids THEN ids ELSE withDescendants(g, ids \cup children)

\* Mutant of removeCells: edges of the removed cells are not removed.
removeCellsNoEdges(g, ids) ==
  LET named == { ids[i] : i \in { j \in 1..Len(ids) : hasCell(g, ids[j]) } }
      gone == withDescendants(g, named)
  IN [g EXCEPT !.cells = SelectSeq(g.cells, LAMBDA c : c.id \notin gone)]

\* graph.removeCells(cells) with includeEdges at its default (true): the
\* cells that exist, the cells below them, and every edge that has one of
\* these as source or target leave the model; an id that names no cell is
\* skipped.
removeCells(g, ids) ==
  LET named == { ids[i] : i \in { j \in 1..Len(ids) : hasCell(g, ids[j]) } }
      sub == withDescendants(g, named)
      edges == { c.id : c \in { d \in CellsOf(g) :
                   d.edge /\ \E i \in sub : d.source = Str(i) \/ d.target = Str(i) } }
      gone == withDescendants(g, sub \cup edges)
  IN [g EXCEPT !.cells = SelectSeq(g.cells, LAMBDA c : c.id \notin gone)]

\* Graph.removeNodes; ids is the list of identifiers.
removeNodes(g, ids) == Result(removeCells(g, ids), Undefined, NO_ERROR)

SUPPORTED_ALGORITHMS ==
  <<"hierarchical", "circle", "organic", "compact-tree", "radial-tree",
    "partition", "stack">>

DIRECTIONS == <<"top-down", "left-right">>

RECURSIVE join(_)
\* Array.prototype.join(', ')
join(names) ==
  IF Len(names) = 1 THEN names[1] ELSE names[1] \o ", " \o join(Tail(names))

\* What a layout run can do to the nodes: leave them, move them, or move
\* and resize them.
LayoutOutcomes == {"kept", "moved", "resized"}

\* runLayout: the layout algorithm places the nodes of the default layer.
runLayout(g, outcome) ==
  IF outcome = "kept" THEN g
  ELSE [g EXCEPT !.cells =
          [i \in 1..Len(g.cells) |->
             IF g.cells[i].vertex /\ g.cells[i].geometry # Undefined
             THEN [g.cells[i] EXCEPT !.geometry =
                     Geometry(40 * i, 40,
                              IF outcome = "resized" THEN 30 ELSE g.cells[i].geometry[2].width,
                              IF outcome = "resized" THEN 30 ELSE g.cells[i].geometry[2].height,
                              FALSE, Null)]
             ELSE g.cells[i]]]

\* Mutant of layoutError: a direction is checked for every algorithm.
layoutErrorAnyAlgorithm(algorithm, direction) ==
  IF \A i \in 1..Len(SUPPORTED_ALGORITHMS) : SUPPORTED_ALGORITHMS[i] # algorithm
  THEN "Unsupported layout algorithm: " \o algorithm \o ". Supported: "
         \o join(SUPPORTED_ALGORITHMS)
  ELSE IF /\ direction # Undefined
          /\ \A i \in 1..Len(DIRECTIONS) : direction # Str(DIRECTIONS[i])
       THEN "Invalid hierarchical direction: " \o ToStringAtom(direction)
              \o ". Allowed: " \o join(DIRECTIONS)
       ELSE NO_ERROR

\* The error applyLayout throws for its arguments, NO_ERROR when none.
layoutError(algorithm, direction) ==
  IF \A i \in 1..Len(SUPPORTED_ALGORITHMS) : SUPPORTED_ALGORITHMS[i] # algorithm
  THEN "Unsupported layout algorithm: " \o algorithm \o ". Supported: "
         \o join(SUPPORTED_ALGORITHMS)
  ELSE IF /\ algorithm = SUPPORTED_ALGORITHMS[1]
          /\ direction # Undefined
          /\ \A i \in 1..Len(DIRECTIONS) : direction # Str(DIRECTIONS[i])
       THEN "Invalid hierarchical direction: " \o ToStringAtom(direction)
              \o ". Allowed: " \o join(DIRECTIONS)
       ELSE NO_ERROR

\* Graph.applyLayout; p = [algorithm, direction], direction Undefined when
\* options carries none.  The set of results the call can have.
applyLayout(g, p) ==
  IF layoutError(p.algorithm, p.direction) # NO_ERROR
  THEN { Result(g, Undefined, layoutError(p.algorithm, p.direction)) }
  ELSE { Result(runLayout(g, o), Undefined, NO_ERROR) : o \in LayoutOutcomes }

MaxRemove == 1
MaxLayout == 2

RemoveInputs ==
  { <<"svc">>, <<"db">>, <<"svc-2-db">>, <<"ghost">>, <<"svc", "db">> }

LayoutInputs ==
  { [algorithm |-> a, direction |-> d] :
      a \in { SUPPORTED_ALGORITHMS[i] : i \in 1..Len(SUPPORTED_ALGORITHMS) } \cup {"foo"},
      d \in {Undefined, Str("top-down"), Str("left-right"), Str("diagonal")} }

\* A call graph.removeNodes(ids).
RemoveNodes ==
  /\ calls.remove < MaxRemove
  /\ \E ids \in RemoveInputs :
    \E r \in {removeNodes(graph, ids)} :
       /\ graph' = r.g
       /\ last' = [op |-> "removeNodes", p |-> ids, ret |-> r.ret, err |-> r.err]
       /\ pre' = graph
       /\ calls' = [calls EXCEPT !.remove = @ + 1]
       /\ owner' = NoOwner
       /\ UNCHANGED toolVars

\* A call graph.applyLayout(p).
ApplyLayout ==
  /\ calls.layout < MaxLayout
  /\ \E p \in LayoutInputs :
    \E r \in applyLayout(graph, p) :
       /\ graph' = r.g
       /\ last' = [op |-> "applyLayout", p |-> p, ret |-> r.ret, err |-> r.err]
       /\ pre' = graph
       /\ calls' = [calls EXCEPT !.layout = @ + 1]
       /\ UNCHANGED <<owner, toolVars>>

\* addNode, linkNodes, editNode and removeNodes on one diagram.
RemoveNext == PairAddNode \/ PairLinkNodes \/ PairEditNode \/ RemoveNodes

RemoveSpec == Init /\ [][RemoveNext]_vars

\* addNode and applyLayout on one diagram.
LayoutNext == PairAddNode \/ ApplyLayout

LayoutSpec == Init /\ [][LayoutNext]_vars

(***************************************************************************)
(* Vocabulary of the properties.                                           *)
(***************************************************************************)
IsNode(g, id) == hasCell(g, id) /\ getCell(g, id).vertex
IsEdge(g, id) == hasCell(g, id) /\ getCell(g, id).edge
NodeIdsOf(g) == { g.cells[i].id : i \in { j \in 1..Len(g.cells) : g.cells[j].vertex } }
IdsOf(g) == [i \in 1..Len(g.cells) |-> g.cells[i].id]

\* The edges of g whose two terminals are the nodes a and b, in either order.
EdgesBetween(g, a, b) ==
  { i \in 1..Len(g.cells) :
      /\ g.cells[i].edge
      /\ \/ g.cells[i].source = Str(a) /\ g.cells[i].target = Str(b)
         \/ g.cells[i].source = Str(b) /\ g.cells[i].target = Str(a) }

LastIs(op) == last.op = op
LastOk(op) == last.op = op /\ last.err = NO_ERROR

\* The three candidate identifiers of the last linkNodes call.
LastDirect == last.p.from \o "-2-" \o last.p.to
LastReverse == last.p.to \o "-2-" \o last.p.from
LastCanonical ==
  IF StringLess(last.p.to, last.p.from) THEN LastReverse ELSE LastDirect

\* The cell the last linkNodes call found in pre: the first of direct,
\* reverse, canonical that names a cell ("" when none does).
LastFound ==
  IF hasCell(pre, LastDirect) THEN LastDirect
  ELSE IF hasCell(pre, LastReverse) THEN LastReverse
  ELSE IF hasCell(pre, LastCanonical) THEN LastCanonical
  ELSE ""

(***************************************************************************)
(* C1. For every pair of existing nodes A and B the model holds at most    *)
(* one edge connecting A and B, whatever the endpoint order and the        *)
(* undirected flag of the linkNodes calls that were made.                  *)
(***************************************************************************)
C1_AtMostOneEdgePerPair ==
  \A a \in NodeIdsOf(graph) : \A b \in NodeIdsOf(graph) :
    Cardinality(EdgesBetween(graph, a, b)) <= 1

\* Two linkNodes calls on the same two nodes, the second with the endpoints
\* swapped, left one edge.
C1_Witness ==
  /\ LastIs("linkNodes")
  /\ last.p.from = "db" /\ last.p.to = "svc"
  /\ IsNode(pre, "svc") /\ IsNode(pre, "db")
  /\ Cardinality(EdgesBetween(pre, "svc", "db")) = 1
  /\ IsEdge(pre, "svc-2-db")
  /\ Cardinality(EdgesBetween(graph, "svc", "db")) = 1

(***************************************************************************)
(* C2. An edge's identifier never changes: once a linkNodes call on the    *)
(* pair (A,B) has returned the identifier of the edge between A and B,     *)
(* every following linkNodes call on (A,B) or (B,A), with only linkNodes   *)
(* calls on that pair and editNode calls in between, returns that same     *)
(* identifier, and the edge is still stored under it.                      *)
(***************************************************************************)
C2_EdgeIdStable ==
  /\ owner.pair # {} =>
       \E a \in owner.pair : \E b \in owner.pair :
         owner.pair = {a, b} /\ connects(graph, owner.id, a, b)
  /\ (LastIs("linkNodes") /\ owner.pair = {last.p.from, last.p.to}) =>
       last.ret = Str(owner.id)

(***************************************************************************)
(* C3. When no cell exists under the direct, reverse or canonical          *)
(* identifier, linkNodes(from, to) creates exactly one new edge, whose     *)
(* identifier is min-2-max when undirected is true and from-2-to otherwise.*)
(***************************************************************************)
C3_NewEdgeId ==
  (LastIs("linkNodes") /\ LastFound = "") =>
    LET expected == IF last.p.undirected = Bool(TRUE) THEN LastCanonical ELSE LastDirect
    IN /\ Len(graph.cells) = Len(pre.cells) + 1
       /\ SubSeq(graph.cells, 1, Len(pre.cells)) = pre.cells
       /\ lastCell(graph).edge
       /\ lastCell(graph).id = expected
       /\ last.ret = Str(expected)

\* An undirected link from svc to db on a diagram without an edge for the
\* pair created the edge db-2-svc.
C3_Witness ==
  /\ LastIs("linkNodes")
  /\ LastFound = ""
  /\ last.p.from = "svc" /\ last.p.to = "db" /\ last.p.undirected = Bool(TRUE)
  /\ IsEdge(graph, "db-2-svc")
  /\ ~hasCell(pre, "db-2-svc")

(***************************************************************************)
(* C4. When linkNodes finds an existing edge for the pair, the edge's      *)
(* label becomes the supplied title if a title was supplied and stays as   *)
(* it was otherwise; no cell is added and the identifier is the original.  *)
(***************************************************************************)
C4_LabelUpdate ==
  (LastIs("linkNodes") /\ LastFound # "" /\ IsEdge(pre, LastFound)) =>
    /\ IdsOf(graph) = IdsOf(pre)
    /\ last.ret = Str(LastFound)
    /\ getCell(graph, LastFound).value =
         IF last.p.title # Undefined THEN last.p.title ELSE getCell(pre, LastFound).value

\* linkNodes(svc, db, "queries") then linkNodes(db, svc, "reads"): one edge,
\* label "reads", identifier svc-2-db.
C4_Witness ==
  /\ LastIs("linkNodes")
  /\ last.p.from = "db" /\ last.p.to = "svc" /\ last.p.title = Str("reads")
  /\ IsEdge(pre, "svc-2-db")
  /\ getCell(pre, "svc-2-db").value = Str("queries")
  /\ getCell(graph, "svc-2-db").value = Str("reads")
  /\ Cardinality({ i \in 1..Len(graph.cells) : graph.cells[i].edge }) = 1

(***************************************************************************)
(* C5. linkNodes(from, to) where from or to does not name an existing node *)
(* fails with an error and creates no edge.                                *)
(***************************************************************************)
C5_LinkRequiresNodes ==
  (LastIs("linkNodes") /\ ~(IsNode(pre, last.p.from) /\ IsNode(pre, last.p.to))) =>
    /\ last.err # NO_ERROR
    /\ graph.cells = pre.cells

(***************************************************************************)
(* C6. editNode(id, ...) fails with "Node not found" whenever id names     *)
(* neither an existing node nor an existing edge, and then changes no      *)
(* node or edge.                                                           *)
(***************************************************************************)
C6_EditNotFound ==
  (LastIs("editNode") /\ ~IsNode(pre, last.p.id) /\ ~IsEdge(pre, last.p.id)) =>
    /\ last.err = NOT_FOUND
    /\ graph = pre

\* The target of the last editNode call, before and after it.
Before == getCell(pre, last.p.id)
After == getCell(graph, last.p.id)
LastTargetsCell == IsNode(pre, last.p.id) \/ IsEdge(pre, last.p.id)

\* The value a style holds for key k, as a string; Undefined when absent.
StyleValue(style, k) ==
  IF HasKey(parseStyle(style), k)
  THEN Str(ToStringAtom(GetKey(parseStyle(style), k)))
  ELSE Undefined

StyleKeys(style) ==
  { parseStyle(style)[i][1] : i \in 1..Len(parseStyle(style)) }

\* The style keys the last editNode call supplies a value for.
LastSuppliedKeys ==
  { k \in { STYLE_OVERRIDE_KEYS[i] : i \in 1..Len(STYLE_OVERRIDE_KEYS) } :
      GetKey(last.p.rest, k) # Undefined }
  \cup (IF last.p.corner_radius # Undefined
        THEN {PROP_ARC_SIZE, PROP_ABSOLUTE_ARC_SIZE} ELSE {})

(***************************************************************************)
(* C8. editNode merges geometry field by field: after a successful call on *)
(* a node each of x, y, width, height is the supplied value if the field   *)
(* was supplied and the node's previous value otherwise.                   *)
(***************************************************************************)
C8_GeometryMerge ==
  (LastOk("editNode") /\ IsNode(pre, last.p.id)) =>
    LET old == Before.geometry[2]
        new == After.geometry[2]
    IN /\ new.x = IF last.p.x # Undefined THEN last.p.x[2] ELSE old.x
       /\ new.y = IF last.p.y # Undefined THEN last.p.y[2] ELSE old.y
       /\ new.width = IF last.p.width # Undefined THEN last.p.width[2] ELSE old.width
       /\ new.height = IF last.p.height # Undefined THEN last.p.height[2] ELSE old.height

\* editNode(svc, y: 300) on the node added at (100,150) with size 120 by 60.
C8_Witness ==
  /\ LastOk("editNode")
  /\ last.p.id = "svc" /\ IsNode(pre, "svc")
  /\ last.p.x = Undefined /\ last.p.y = Num(300)
  /\ last.p.width = Undefined /\ last.p.height = Undefined
  /\ Before.geometry[2].y = 150
  /\ After.geometry[2].x = 100 /\ After.geometry[2].y = 300
  /\ After.geometry[2].width = 120 /\ After.geometry[2].height = 60

(***************************************************************************)
(* C9. editNode leaves unchanged every attribute of the target whose field *)
(* is omitted from the call: the label, each geometry component and each   *)
(* style attribute keep their prior values unless the call supplies them.  *)
(***************************************************************************)
C9_OmittedUnchanged ==
  (LastOk("editNode") /\ LastTargetsCell) =>
    /\ last.p.title = Undefined => After.value = Before.value
    /\ last.p.x = Undefined => After.geometry[2].x = Before.geometry[2].x
    /\ last.p.y = Undefined => After.geometry[2].y = Before.geometry[2].y
    /\ last.p.width = Undefined => After.geometry[2].width = Before.geometry[2].width
    /\ last.p.height = Undefined => After.geometry[2].height = Before.geometry[2].height
    /\ \A k \in StyleKeys(Before.style) \ LastSuppliedKeys :
         StyleValue(After.style, k) = StyleValue(Before.style, k)

(***************************************************************************)
(* C10. Every field provided to editNode overwrites the corresponding      *)
(* attribute: after a successful call the label equals the provided title  *)
(* (any provided string), the geometry components equal the provided       *)
(* x/y/width/height, and each provided style-override key holds the        *)
(* provided value.                                                         *)
(***************************************************************************)
C10_ProvidedOverwrites ==
  (LastOk("editNode") /\ LastTargetsCell) =>
    /\ last.p.title # Undefined => After.value = last.p.title
    /\ last.p.x # Undefined => After.geometry[2].x = last.p.x[2]
    /\ last.p.y # Undefined => After.geometry[2].y = last.p.y[2]
    /\ last.p.width # Undefined => After.geometry[2].width = last.p.width[2]
    /\ last.p.height # Undefined => After.geometry[2].height = last.p.height[2]
    /\ \A i \in 1..Len(last.p.rest) :
         last.p.rest[i][2] # Undefined =>
           StyleValue(After.style, last.p.rest[i][1]) = Str(ToStringAtom(last.p.rest[i][2]))

(***************************************************************************)
(* C7. A batch is all-or-nothing with respect to the saved document: when  *)
(* a mutation of an edit_nodes or link_nodes invocation fails, save is not *)
(* called and the persisted document is what it was before the            *)
(* invocation, also when earlier mutations of the batch were applied to    *)
(* the loaded graph.                                                       *)
(***************************************************************************)
C7_NoPartialSave ==
  run.err # NO_ERROR => (run.saves = 0 /\ file = run.before)

\* The second mutation of a batch failed after the first was applied to the
\* loaded graph: the graph differs from the document, the document is as
\* it was.
C7_Witness ==
  /\ pc = "failed"
  /\ run.tool = "edit_nodes"
  /\ run.applied = 1
  /\ run.err = NOT_FOUND
  /\ graph.cells # file
  /\ file = run.before

(***************************************************************************)
(* Vocabulary of the kind and corner-radius properties.                    *)
(***************************************************************************)
\* The node the last addNode call inserted.
AddedNode == getCell(graph, last.ret[2])

\* The kind the last addNode call looks up in the catalog.
LastAddKind ==
  normalizeKind(IF last.p.kind = Undefined THEN Str("Rectangle") ELSE last.p.kind)

InCatalog(kind) == TypeOf(kind) = "string" /\ kind[2] \in KindNames

\* Only the rounded-rectangle base style carries an arcSize.
HasArcSize(style) == StyleValue(style, PROP_ARC_SIZE) # Undefined

(***************************************************************************)
(* C11. addNode of a rounded-rectangle node with corner_radius r >= 1      *)
(* yields a style whose arcSize is 2r and whose absoluteArcSize is 1; with *)
(* corner_radius omitted the arcSize is 24 and absoluteArcSize is 1.       *)
(***************************************************************************)
C11_ArcSizeOnAdd ==
  (LastOk("addNode") /\ LastAddKind = Str(KIND_ROUNDED_RECTANGLE)) =>
    /\ StyleValue(AddedNode.style, PROP_ARC_SIZE) =
         Str(NumToString(IF last.p.corner_radius = Undefined THEN 24
                         ELSE 2 * last.p.corner_radius[2]))
    /\ StyleValue(AddedNode.style, PROP_ABSOLUTE_ARC_SIZE) = Str("1")

\* A rounded rectangle added with corner_radius 5 and no overrides: its
\* style ends in absoluteArcSize=1;arcSize=10;
C11_Witness ==
  /\ LastOk("addNode")
  /\ last.p.kind = Str(KIND_ROUNDED_RECTANGLE)
  /\ last.p.corner_radius = Num(5)
  /\ AddedNode.style =
       StyleString(<< <<"whiteSpace", "wrap">>, <<"html", "1">>, <<"rounded", "1">>,
                      <<"absoluteArcSize", "1">>, <<"arcSize", "10">>, EmptySeg >>)

(***************************************************************************)
(* C12. editNode with corner_radius r >= 1 on a node that already is a     *)
(* rounded rectangle, whether or not the call repeats the kind, sets the   *)
(* node's arcSize to 2r with absoluteArcSize 1; on a node of another kind  *)
(* the corner radius is ignored.                                           *)
(***************************************************************************)
C12_RadiusOnRoundedNode ==
  ( /\ LastOk("editNode")
    /\ IsNode(pre, last.p.id)
    /\ last.p.corner_radius # Undefined
    /\ last.p.kind \in {Undefined, Str(KIND_ROUNDED_RECTANGLE)} ) =>
    IF HasArcSize(Before.style)
    THEN /\ StyleValue(After.style, PROP_ARC_SIZE) =
              Str(NumToString(2 * last.p.corner_radius[2]))
         /\ StyleValue(After.style, PROP_ABSOLUTE_ARC_SIZE) = Str("1")
    ELSE last.p.kind = Undefined => ~HasArcSize(After.style)

(***************************************************************************)
(* C13. When editNode changes a node's kind to rounded rectangle and       *)
(* supplies no corner radius, the resulting style has arcSize 24 and       *)
(* absoluteArcSize 1, whatever the node's previous kind and arcSize.       *)
(***************************************************************************)
C13_DefaultRadiusOnKindChange ==
  ( /\ LastOk("editNode")
    /\ IsNode(pre, last.p.id)
    /\ last.p.kind = Str(KIND_ROUNDED_RECTANGLE)
    /\ last.p.corner_radius = Undefined ) =>
    /\ StyleValue(After.style, PROP_ARC_SIZE) = Str("24")
    /\ StyleValue(After.style, PROP_ABSOLUTE_ARC_SIZE) = Str("1")

\* A rounded rectangle of arcSize 10 edited with kind RoundedRectangle and
\* no corner radius is back at arcSize 24.
C13_Witness ==
  /\ LastOk("editNode")
  /\ IsNode(pre, last.p.id)
  /\ last.p.kind = Str(KIND_ROUNDED_RECTANGLE)
  /\ last.p.corner_radius = Undefined
  /\ StyleValue(Before.style, PROP_ARC_SIZE) = Str("10")
  /\ StyleValue(After.style, PROP_ARC_SIZE) = Str("24")

(***************************************************************************)
(* C14. addNode or editNode called with a kind that, after normalizing     *)
(* 'Elipse' to 'Ellipse', is not a kind of the catalog fails with an       *)
(* error, and addNode inserts no node in that case.                        *)
(***************************************************************************)
C14_UnknownKindFails ==
  /\ (LastIs("addNode") /\ ~InCatalog(LastAddKind)) =>
       (last.err # NO_ERROR /\ graph = pre)
  /\ (LastIs("editNode") /\ last.p.kind # Undefined
        /\ ~InCatalog(normalizeKind(last.p.kind))) =>
       last.err # NO_ERROR

(***************************************************************************)
(* C15. addNode with no width, height or style overrides gives the node    *)
(* its kind's default size and a style string containing the kind's base   *)
(* style (for a Rectangle: rounded=1;whiteSpace=wrap;html=1; and 120x60).  *)
(* The arcSize of the base style is left out when a corner radius is       *)
(* supplied.                                                               *)
(***************************************************************************)
C15_DefaultStyleAndSize ==
  (LastOk("addNode") /\ last.p.rest = <<>> /\ InCatalog(LastAddKind)) =>
    LET base == Kinds[LastAddKind[2]]
    IN /\ AddedNode.geometry[2].width = base.width
       /\ AddedNode.geometry[2].height = base.height
       /\ TypeOf(AddedNode.style) = "string"
       /\ \A k \in StyleKeys(base.style) :
            \/ k = PROP_ARC_SIZE /\ last.p.corner_radius # Undefined
            \/ StyleValue(AddedNode.style, k) = StyleValue(base.style, k)

(***************************************************************************)
(* C16. removeNodes([A]) where A is a node removes A together with every   *)
(* edge whose source or target is A: afterwards no cell is stored under    *)
(* A, no remaining edge references A, and the edges that were incident to  *)
(* A are no longer listed.                                                 *)
(***************************************************************************)
C16_RemoveCascades ==
  (LastOk("removeNodes") /\ Len(last.p) = 1 /\ IsNode(pre, last.p[1])) =>
    LET A == last.p[1]
    IN /\ ~hasCell(graph, A)
       /\ \A c \in CellsOf(graph) :
            c.edge => (c.source # Str(A) /\ c.target # Str(A))
       /\ \A c \in CellsOf(pre) :
            (c.edge /\ (c.source = Str(A) \/ c.target = Str(A))) => ~hasCell(graph, c.id)

\* svc and db were linked; removeNodes(["svc"]) left db and neither svc nor
\* the edge.
C16_Witness ==
  /\ LastOk("removeNodes")
  /\ last.p = <<"svc">>
  /\ IsNode(pre, "svc") /\ IsNode(pre, "db")
  /\ Cardinality(EdgesBetween(pre, "svc", "db")) = 1
  /\ IsNode(graph, "db")
  /\ ~hasCell(graph, "svc")
  /\ \A c \in CellsOf(graph) : ~c.edge

(***************************************************************************)
(* C17. applyLayout fails exactly when the algorithm is not one of the     *)
(* seven supported ones, or the algorithm is hierarchical and a direction  *)
(* other than top-down and left-right is supplied; the error names the     *)
(* valid choices; a failed call changes no cell; a direction supplied to   *)
(* another algorithm is ignored.                                           *)
(***************************************************************************)
C17_LayoutErrors ==
  LastIs("applyLayout") =>
    LET alg == last.p.algorithm
        dir == last.p.direction
        badAlg == alg \notin {"hierarchical", "circle", "organic", "compact-tree",
                              "radial-tree", "partition", "stack"}
        badDir == /\ alg = "hierarchical"
                  /\ dir \notin {Undefined, Str("top-down"), Str("left-right")}
    IN /\ (last.err # NO_ERROR) <=> (badAlg \/ badDir)
       /\ badAlg =>
            last.err = "Unsupported layout algorithm: " \o alg
              \o ". Supported: hierarchical, circle, organic, compact-tree, radial-tree, partition, stack"
       /\ (~badAlg /\ badDir) =>
            last.err = "Invalid hierarchical direction: " \o dir[2]
              \o ". Allowed: top-down, left-right"
       /\ last.err # NO_ERROR => graph = pre

\* Layout "foo" was requested on a diagram with a node: the call failed
\* naming the seven algorithms and the diagram is as before.
C17_Witness ==
  /\ LastIs("applyLayout")
  /\ last.p.algorithm = "foo"
  /\ IsNode(pre, "svc")
  /\ last.err = "Unsupported layout algorithm: foo. Supported: hierarchical, circle, organic, compact-tree, radial-tree, partition, stack"
  /\ graph = pre

(***************************************************************************)
(* C18. Every identifier names at most one cell: no two cells of the       *)
(* diagram share an identifier after any sequence of addNode, linkNodes,   *)
(* editNode and removeNodes, also when addNode is called with an           *)
(* identifier that is in use.                                              *)
(***************************************************************************)
C18_UniqueIds ==
  \A i \in 1..Len(graph.cells) : \A j \in 1..Len(graph.cells) :
    i # j => graph.cells[i].id # graph.cells[j].id

\* addNode was called with an identifier that names a cell: the new node
\* got another identifier.
C18_Witness ==
  /\ LastOk("addNode")
  /\ hasCell(pre, last.p.id)
  /\ last.ret # Str(last.p.id)
  /\ IsNode(graph, last.ret[2])
  /\ Len(graph.cells) = Len(pre.cells) + 1

(***************************************************************************)
(* C19. Nothing protects the document across invocations: when two tool    *)
(* invocations on the same file interleave their load and save steps the   *)
(* last save wins, i.e. after a save the persisted document is the saver's *)
(* loaded state plus its own batch, whatever other invocations saved in    *)
(* between; their mutations can be absent from it.                         *)
(***************************************************************************)
C19_LastWriteWins ==
  LastIs("saveGraphToSvg") =>
    LET saver == procs[last.p]
    IN file = applyBatch(saver.tool, loadGraphFromSvg(saver.loaded),
                         saver.items[2], 0).g.cells

\* Both invocations loaded the two-node document; the first renamed svc and
\* saved, the second linked svc to db and saved last: the document has the
\* edge and svc's old label.
C19_Witness ==
  /\ LastIs("saveGraphToSvg")
  /\ last.p = 2
  /\ procs[1].pc = "done" /\ procs[2].pc = "done"
  /\ procs[1].tool = "edit_nodes"
  /\ procs[1].items[2][1].id = "svc" /\ procs[1].items[2][1].title = Str("Billing")
  /\ procs[1].graph.cells # procs[1].loaded
  /\ procs[2].tool = "link_nodes"
  /\ procs[1].loaded = TwoNodes.cells /\ procs[2].loaded = TwoNodes.cells
  /\ hasCell([cells |-> file, nextId |-> 0], "svc-2-db")
  /\ getCell([cells |-> file, nextId |-> 0], "svc").value = Str("Service")

(***************************************************************************)
(* C20. Style round trip: for every style mapping m, parsing the string    *)
(* produced by stringifying m yields a mapping with the same key/value set *)
(* as m.                                                                   *)
(***************************************************************************)
C20_RoundTrip ==
  LastIs("roundTrip") =>
    { last.ret[i] : i \in 1..Len(last.ret) } = { last.p[i] : i \in 1..Len(last.p) }

(***************************************************************************)
(* Style strings read segment by segment: the key of a segment is the text *)
(* before its first '=', its value everything after it.                    *)
(***************************************************************************)
\* The text whose '='-separated parts are parts.
JoinEquals(parts) ==
  IF Len(parts) = 1 THEN parts[1]
  ELSE CHOOSE t \in DOMAIN EqualsSplit : EqualsSplit[t] = parts

\* The value of a segment: "" without '=', else the text after the first '='.
SegmentValue(seg) == IF Len(seg) = 1 THEN "" ELSE JoinEquals(Tail(seg))

\* The non-empty segments of a style string.
SegmentsOf(style) == SelectSeq(style[2], LAMBDA s : s # EmptySeg)

TextKeys(style) == { SegmentsOf(style)[i][1] : i \in 1..Len(SegmentsOf(style)) }

\* The value the style string holds for key k (its last segment for k).
TextValue(style, k) ==
  LET segs == SegmentsOf(style)
      i == CHOOSE j \in 1..Len(segs) :
             segs[j][1] = k /\ \A m \in (j + 1)..Len(segs) : segs[m][1] # k
  IN SegmentValue(segs[i])

\* The keys the overrides hold with a value other than undefined.
DefinedKeys(overrides) ==
  { overrides[i][1] : i \in { j \in 1..Len(overrides) : overrides[j][2] # Undefined } }

(***************************************************************************)
(* C21. Merging overrides into a style string overwrites exactly the keys  *)
(* the overrides hold with a non-undefined value, each with its            *)
(* stringified value; every other key of the original string keeps its    *)
(* value, and no key is dropped or added otherwise.                        *)
(***************************************************************************)
C21_MergeFrame ==
  LastIs("mergeStyleOverrides") =>
    LET s == last.p.styleStr
        o == last.p.overrides
        r == last.ret
    IN /\ TextKeys(r) = TextKeys(s) \cup DefinedKeys(o)
       /\ \A k \in DefinedKeys(o) : TextValue(r, k) = ToStringAtom(GetKey(o, k))
       /\ \A k \in TextKeys(s) \ DefinedKeys(o) : TextValue(r, k) = TextValue(s, k)

(***************************************************************************)
(* C23. Parsing a style string maps the key of every segment (the text     *)
(* before its first '=') to everything after that '=', further '='         *)
(* characters included, and to the empty string for a segment without '='. *)
(***************************************************************************)
C23_ParseFirstEquals ==
  LastIs("parseStyle") =>
    /\ { last.ret[i][1] : i \in 1..Len(last.ret) } = TextKeys(last.p)
    /\ \A k \in TextKeys(last.p) : GetKey(last.ret, k) = Str(TextValue(last.p, k))

\* The cell the last linkNodes call returned the identifier of.
LastLink == getCell(graph, last.ret[2])

\* How toStyleString writes a value: a falsy value leaves the bare key.
Written(v) == IF Truthy(v) THEN ToStringAtom(v) ELSE ""

(***************************************************************************)
(* C22. After linkNodes with undirected = true the edge style has no       *)
(* reverse key and has startArrow = none and endArrow = none, whatever     *)
(* style keys the caller supplied; with undirected false or omitted the    *)
(* caller's reverse, startArrow and endArrow are in the style as written   *)
(* by toStyleString.  A requested dashed flag is in the style either way.  *)
(***************************************************************************)
C22_UndirectedStyle ==
  LastOk("linkNodes") =>
    LET st == LastLink.style
        given == last.p.style
    IN /\ Truthy(last.p.undirected) =>
            /\ "reverse" \notin TextKeys(st)
            /\ {"startArrow", "endArrow"} \subseteq TextKeys(st)
            /\ TextValue(st, "startArrow") = "none"
            /\ TextValue(st, "endArrow") = "none"
       /\ ~Truthy(last.p.undirected) =>
            \A k \in {"reverse", "startArrow", "endArrow"} :
              IF HasKey(given, k)
              THEN k \in TextKeys(st) /\ TextValue(st, k) = Written(GetKey(given, k))
              ELSE k \notin TextKeys(st)
       /\ Truthy(GetKey(given, "dashed")) =>
            "dashed" \in TextKeys(st) /\ TextValue(st, "dashed") = Written(GetKey(given, "dashed"))

\* An undirected call that supplies reverse, both arrowheads and dashed
\* updates the edge a directed call created with reverse and arrowheads.
C22_Witness ==
  /\ LastOk("linkNodes")
  /\ last.p.undirected = Bool(TRUE)
  /\ GetKey(last.p.style, "reverse") = Bool(TRUE)
  /\ GetKey(last.p.style, "startArrow") = Str("classic")
  /\ GetKey(last.p.style, "dashed") = Num(1)
  /\ IsEdge(pre, last.ret[2])
  /\ {"reverse", "startArrow"} \subseteq TextKeys(getCell(pre, last.ret[2]).style)
  /\ TextValue(getCell(pre, last.ret[2]).style, "startArrow") = "classic"
  /\ TextValue(LastLink.style, "dashed") = "1"
  /\ TextValue(LastLink.style, "startArrow") = "none"

\* The routing points of a cell's geometry (Null when it has none).
PointsOf(cell) == cell.geometry[2].points

(***************************************************************************)
(* C24. linkNodes replaces an edge's routing points as a whole: with a     *)
(* non-empty waypoints list the edge's points afterwards are exactly that  *)
(* list, in order; with waypoints omitted or empty the points of an        *)
(* existing edge are unchanged and a new edge has none.                    *)
(***************************************************************************)
C24_WaypointsReplace ==
  LastOk("linkNodes") =>
    LET w == last.p.waypoints
    IN IF w # Undefined /\ Len(w[2]) > 0
       THEN PointsOf(LastLink) = w
       ELSE IF hasCell(pre, last.ret[2])
            THEN PointsOf(LastLink) = PointsOf(getCell(pre, last.ret[2]))
            ELSE PointsOf(LastLink) = Null

\* An edge routed through two points is routed again through one other point.
C24_Witness ==
  /\ LastOk("linkNodes")
  /\ IsEdge(pre, last.ret[2])
  /\ PointsOf(getCell(pre, last.ret[2])) = Obj(<< Waypoint(10, 20), Waypoint(30, 40) >>)
  /\ last.p.waypoints = Obj(<< Waypoint(50, 60) >>)
  /\ PointsOf(LastLink) = Obj(<< Waypoint(50, 60) >>)

\* Is the routing style of the last linkNodes call one that replaces the
\* default edgeStyle = none.
LastRouted ==
  /\ Truthy(last.p.edgeStyle)
  /\ HasKey(EDGE_STYLES, last.p.edgeStyle[2])
  /\ GetKey(EDGE_STYLES, last.p.edgeStyle[2]) # "none"

\* The keys the style of the last linkNodes call must hold: the base keys,
\* the caller's keys, and what the undirected flag removes and forces.
LastStyleKeys ==
  LET baseKeys == {"edgeStyle", "orthogonal", "html"}
                    \cup (IF LastRouted THEN {} ELSE {"noEdgeStyle"})
  IN IF Truthy(last.p.undirected)
     THEN ((baseKeys \cup DefinedKeys(last.p.style)) \ {"reverse"})
            \cup {"startArrow", "endArrow"}
     ELSE baseKeys \cup DefinedKeys(last.p.style)

(***************************************************************************)
(* C25. When linkNodes updates an existing edge its style is recomputed    *)
(* from the current call alone: its keys are the base keys layered with    *)
(* this call's routing style, style keys and undirected handling, each     *)
(* with this call's value, and no key an earlier linkNodes or editNode     *)
(* call set survives unless this call supplies it again.                   *)
(***************************************************************************)
C25_StyleRecomputed ==
  (LastOk("linkNodes") /\ hasCell(pre, last.ret[2])) =>
    LET st == LastLink.style
        given == last.p.style
        forced == IF Truthy(last.p.undirected)
                  THEN {"reverse", "startArrow", "endArrow"} ELSE {}
    IN /\ TextKeys(st) = LastStyleKeys
       /\ \A k \in DefinedKeys(given) \ forced : TextValue(st, k) = Written(GetKey(given, k))
       /\ TextValue(st, "edgeStyle") =
            (IF LastRouted THEN GetKey(EDGE_STYLES, last.p.edgeStyle[2]) ELSE "none")
       /\ TextValue(st, "orthogonal") = "1" /\ TextValue(st, "html") = "1"
       /\ \A k \in TextKeys(getCell(pre, last.ret[2]).style) \ LastStyleKeys :
            k \notin TextKeys(st)

\* An edge made dashed by linkNodes and recoloured by editNode is linked
\* again with no style key: neither dashed nor strokeColor is left.
C25_Witness ==
  /\ LastOk("linkNodes")
  /\ IsEdge(pre, last.ret[2])
  /\ last.p.style = <<>>
  /\ {"dashed", "strokeColor"} \subseteq TextKeys(getCell(pre, last.ret[2]).style)
  /\ TextValue(getCell(pre, last.ret[2]).style, "strokeColor") = "#ff0000"
  /\ TextKeys(LastLink.style) \cap {"dashed", "strokeColor"} = {}

RECURSIVE InArrayOrder(_, _, _)
\* The graph after the mutations of items, first to last, each on the graph
\* the one before it left.
InArrayOrder(tool, g, items) ==
  IF items = <<>> THEN g
  ELSE InArrayOrder(tool, applyItem(tool, g, items[1]).g, Tail(items))

(***************************************************************************)
(* C26. An invocation of edit_nodes or link_nodes with a missing file path *)
(* or a missing or empty array fails with an invalid-parameters error      *)
(* before any load.  Every other invocation loads once; the mutations are  *)
(* applied in array order on that loaded graph with no load or save in     *)
(* between; a successful invocation then saves once, and what it saves is  *)
(* the loaded graph after all the mutations.                               *)
(***************************************************************************)
C26_LoadApplySave ==
  /\ run.n > 0 => (invalidParams(run) <=> pc = "invalid")
  /\ pc = "invalid" =>
       run.loads = 0 /\ run.saves = 0 /\ run.err = INVALID_PARAMS /\ file = run.before
  /\ pc = "loading" => run.loads = 0 /\ run.saves = 0 /\ run.applied = 0
  /\ pc = "loaded" =>
       /\ run.loads = 1 /\ run.saves = 0 /\ run.applied = 0
       /\ graph = loadGraphFromSvg(run.before)
  /\ pc = "failed" => run.loads = 1 /\ run.saves = 0 /\ run.applied < Len(run.items[2])
  /\ pc = "saving" =>
       /\ run.loads = 1 /\ run.saves = 0 /\ run.applied = Len(run.items[2])
       /\ graph = InArrayOrder(run.tool, loadGraphFromSvg(run.before), run.items[2])
       /\ file = run.before
  /\ pc = "done" =>
       /\ run.loads = 1 /\ run.saves = 1 /\ run.applied = Len(run.items[2])
       /\ run.err = NO_ERROR
       /\ file = InArrayOrder(run.tool, loadGraphFromSvg(run.before), run.items[2]).cells

\* A link_nodes invocation with two different entries for the pair svc, db
\* on the two-node document is done: one load, two mutations, one save.
C26_Witness ==
  /\ pc = "done"
  /\ run.tool = "link_nodes"
  /\ run.before = TwoNodes.cells
  /\ Len(run.items[2]) = 2
  /\ run.items[2][1].title = Str("queries")
  /\ run.items[2][2].title = Str("reads")
  /\ run.loads = 1 /\ run.saves = 1 /\ run.applied = 2
  /\ file # run.before
  /\ getCell([cells |-> file, nextId |-> 0], "svc-2-db").value = Str("reads")

(***************************************************************************)
(* C27. linkNodes never changes a node: after any linkNodes call the       *)
(* label, style and geometry of every node are what they were before the   *)
(* call, whatever the node identifiers are.                                *)
(***************************************************************************)
C27_NodesUnchanged ==
  LastOk("linkNodes") =>
    \A id \in NodeIdsOf(pre) :
      /\ IsNode(graph, id)
      /\ getCell(graph, id).value = getCell(pre, id).value
      /\ getCell(graph, id).style = getCell(pre, id).style
      /\ getCell(graph, id).geometry = getCell(pre, id).geometry

(***************************************************************************)
(* C29. Updating an existing edge through linkNodes never changes its      *)
(* stored endpoints: the source and target of every edge that existed      *)
(* before a linkNodes call are the same after it, whatever the order of    *)
(* from and to and the undirected flag of the call.                        *)
(***************************************************************************)
C29_EndpointsKept ==
  LastOk("linkNodes") =>
    \A i \in 1..Len(pre.cells) :
      pre.cells[i].edge =>
        /\ graph.cells[i].id = pre.cells[i].id
        /\ graph.cells[i].source = pre.cells[i].source
        /\ graph.cells[i].target = pre.cells[i].target

\* The edge created from svc to db is updated by an undirected call from db
\* to svc and still runs from svc to db.
C29_Witness ==
  /\ LastOk("linkNodes")
  /\ last.p.from = "db" /\ last.p.to = "svc"
  /\ last.p.undirected = Bool(TRUE)
  /\ last.ret = Str("svc-2-db")
  /\ IsEdge(pre, "svc-2-db")
  /\ getCell(pre, "svc-2-db").source = Str("svc")
  /\ getCell(graph, "svc-2-db").source = Str("svc")
  /\ getCell(graph, "svc-2-db").target = Str("db")
  /\ getCell(graph, "svc-2-db").style # getCell(pre, "svc-2-db").style

\* The identifiers of the two terminals of an edge, as a set.
EndsOf(cell) == {cell.source, cell.target}

(***************************************************************************)
(* C28. Distinct endpoint pairs resolve to distinct edges: a linkNodes     *)
(* call between two existing nodes C and D leaves an edge connecting C and *)
(* D and changes neither the label nor the style of an edge that connects  *)
(* another pair of nodes, whatever the node identifiers are.               *)
(***************************************************************************)
C28_DistinctPairs ==
  (LastOk("linkNodes") /\ IsNode(pre, last.p.from) /\ IsNode(pre, last.p.to)) =>
    /\ EdgesBetween(graph, last.p.from, last.p.to) # {}
    /\ \A i \in 1..Len(pre.cells) :
         (pre.cells[i].edge /\ EndsOf(pre.cells[i]) # {Str(last.p.from), Str(last.p.to)}) =>
           /\ graph.cells[i].value = pre.cells[i].value
           /\ graph.cells[i].style = pre.cells[i].style

(***************************************************************************)
(* C30. A failing editNode leaves the diagram unchanged: whenever editNode *)
(* raises an error, the label, style and geometry of every cell, the       *)
(* targeted one included, are what they were before the call.              *)
(***************************************************************************)
C30_FailedEditNoChange ==
  (LastIs("editNode") /\ last.err # NO_ERROR) =>
    /\ Len(graph.cells) = Len(pre.cells)
    /\ \A i \in 1..Len(pre.cells) :
         /\ graph.cells[i].id = pre.cells[i].id
         /\ graph.cells[i].value = pre.cells[i].value
         /\ graph.cells[i].style = pre.cells[i].style
         /\ graph.cells[i].geometry = pre.cells[i].geometry

(***************************************************************************)
(* C31. After editNode supplies a kind K of the catalog, the node's style  *)
(* holds every key of K's base style with its base value, with the style   *)
(* keys supplied in the same call layered on top, whether the base style   *)
(* is declared as a string or as a key/value mapping.                      *)
(***************************************************************************)
C31_KindBaseStyle ==
  (LastOk("editNode") /\ Truthy(last.p.kind) /\ InCatalog(normalizeKind(last.p.kind))) =>
    LET base == Kinds[normalizeKind(last.p.kind)[2]].style
    IN /\ \A k \in StyleKeys(base) \ LastSuppliedKeys :
            StyleValue(After.style, k) = StyleValue(base, k)
       /\ \A i \in 1..Len(last.p.rest) :
            last.p.rest[i][2] # Undefined =>
              StyleValue(After.style, last.p.rest[i][1]) = Str(ToStringAtom(last.p.rest[i][2]))

====
